---------------------------- MODULE Spec2Model ----------------------------
(***************************************************************************)
(* A model of orionlang's bytecode compiler (internal/compiler), its       *)
(* instruction encoding (internal/code) and its stack virtual machine      *)
(* (internal/vm).                                                          *)
(*                                                                         *)
(* Go slices are 0-indexed; TLA+ sequences are 1-indexed.  A Go slice s is *)
(* modelled by a sequence, and s[i] is written At(s, i).  The VM's stack   *)
(* and frames arrays, which keep stale cells above sp / framesIndex, are   *)
(* functions over 0..size-1.                                               *)
(*                                                                         *)
(* A Go panic (index out of range, nil dereference, integer division by    *)
(* zero) is not an error value returned by Run: the goroutine unwinds and  *)
(* Run never returns.  The model records it as pc = "panicked".            *)
(***************************************************************************)
EXTENDS Integers, Sequences, FiniteSets, TLC

(***************************************************************************)
(* Bounds of the model.  StackSize and MaxFrames are the VM's capacities   *)
(* (2046 and 1024 in vm.go:12,14), IntBits the width of object.Integer's   *)
(* int64 Value: all three are scaled down so that overflow is reachable.   *)
(***************************************************************************)
StackSize == 4

MaxFrames == 3

IntBits == 8

\* integer literals of the generated programs range over -MaxLit..MaxLit
MaxLit == 2

\* vm.go:13.  An OpSetGlobal/OpGetGlobal operand is a uint16, always below it.
GlobalsSize == 65536

---------------------------------------------------------------------------
(* Go slices *)

At(s, i) == s[i + 1]

\* s[i:]
SliceFrom(s, i) == SubSeq(s, i + 1, Len(s))

\* s[:i]
SliceTo(s, i) == SubSeq(s, 1, i)

InRange(s, i) == i >= 0 /\ i < Len(s)

---------------------------------------------------------------------------
(* internal/code: opcodes, definitions, Make, ReadOperands *)

OpConstant == 0
OpAdd == 1
OpMultiply == 2
OpDivide == 3
OpSubtract == 4
OpPop == 5
OpTrue == 6
OpFalse == 7
OpEqual == 8
OpNotEqual == 9
OpGreaterThan == 10
OpMinus == 11
OpBang == 12
OpJumpNotTruthy == 13
OpJump == 14
OpNull == 15
OpGetGlobal == 16
OpSetGlobal == 17
OpArray == 18
OpHash == 19
OpIndex == 20
OpCall == 21
OpReturnValue == 22
OpReturn == 23
OpGetLocal == 24
OpSetLocal == 25
OpGetBuiltin == 26

\* the keys of the definitions map
DefinedOpcodes == OpConstant .. OpGetBuiltin

\* definitions[op].OperandWidths
OperandWidths(op) ==
    CASE op \in {OpConstant, OpJumpNotTruthy, OpJump, OpSetGlobal, OpGetGlobal,
                 OpArray, OpHash} -> <<2>>
      [] op \in {OpCall, OpSetLocal, OpGetLocal, OpGetBuiltin} -> <<1>>
      [] OTHER -> <<>>

\* uint16(o) stored big-endian
PutUint16(o) == << ((o % 65536) \div 256), (o % 256) >>

\* the bytes Make writes for operand number i (1-based) of width w
OperandBytes(w, o) ==
    CASE w = 2 -> PutUint16(o)
      [] w = 1 -> << o % 256 >>
      [] OTHER -> <<>>

RECURSIVE MakeOperands(_, _, _)
MakeOperands(widths, operands, i) ==
    IF i > Len(widths) THEN <<>>
    ELSE (IF i <= Len(operands)
          THEN OperandBytes(widths[i], operands[i])
          ELSE [k \in 1 .. widths[i] |-> 0])
         \o MakeOperands(widths, operands, i + 1)

\* Make(op, operands...): the opcode byte followed by the operands at their
\* declared widths; the empty sequence for an undefined opcode.  (The model
\* never passes more operands than the opcode declares.)
Make(op, operands) ==
    IF op \notin DefinedOpcodes THEN <<>>
    ELSE <<op>> \o MakeOperands(OperandWidths(op), operands, 1)

\* binary.BigEndian.Uint16 needs two bytes; with fewer it panics
CanReadUInt16(ins) == Len(ins) >= 2

ReadUInt16(ins) == ins[1] * 256 + ins[2]

ReadUInt8(ins) == ins[1]

\* Lookup(op): the error is non-nil exactly when definitions has no entry
LookupFails(op) == op \notin DefinedOpcodes

\* ReadOperands(def, ins): the loop over def.OperandWidths.  acc holds the
\* operands read so far, the offset, and whether a read ran past the end of
\* ins (a panic of ReadUInt16 or ReadUInt8).  A width that is neither 2 nor
\* 1 leaves the operand at 0 and still advances the offset.
RECURSIVE ReadOperandsFrom(_, _, _, _)
ReadOperandsFrom(widths, ins, i, acc) ==
    IF i > Len(widths) \/ acc.panic THEN acc
    ELSE LET width == widths[i]
             rest == SliceFrom(ins, acc.offset)
         IN  IF width \in {1, 2} /\ Len(rest) < width
             THEN [acc EXCEPT !.panic = TRUE]
             ELSE ReadOperandsFrom(widths, ins, i + 1,
                      [operands |-> Append(acc.operands,
                                        CASE width = 2 -> ReadUInt16(rest)
                                          [] width = 1 -> ReadUInt8(rest)
                                          [] OTHER -> 0),
                       offset |-> acc.offset + width,
                       panic |-> FALSE])

ReadOperands(widths, ins) ==
    ReadOperandsFrom(widths, ins, 1,
                     [operands |-> <<>>, offset |-> 0, panic |-> FALSE])

---------------------------------------------------------------------------
(* internal/object: the values the compiler and the VM handle.  Every      *)
(* object carries the address it was allocated at: Go compares two         *)
(* object.Object interface values by dynamic type and pointer.             *)

INTEGER_OBJ == "INTEGER"
BOOLEAN_OBJ == "BOOLEAN"
NULL_OBJ == "NULL"
STRING_OBJ == "STRING"
ARRAY_OBJ == "ARRAY"
HASH_OBJ == "HASH"
COMPILED_FUNCTION_OBJ == "COMPILED_FUNCTION_OBJ"

\* int64 arithmetic wraps around (two's complement), at the model's width
MinInt == -(2 ^ (IntBits - 1))

WrapInt(n) == ((n - MinInt) % (2 ^ IntBits)) + MinInt

Integer(addr, n) == [type |-> INTEGER_OBJ, addr |-> addr, Value |-> n]

String(addr, s) == [type |-> STRING_OBJ, addr |-> addr, StrValue |-> s]

Array(addr, elements) == [type |-> ARRAY_OBJ, addr |-> addr, Elements |-> elements]

Hash(addr, pairs) == [type |-> HASH_OBJ, addr |-> addr, Pairs |-> pairs]

CompiledFunction(addr, ins) == [type |-> COMPILED_FUNCTION_OBJ, addr |-> addr, Instructions |-> ins]

\* the three singletons of vm.go
True == [type |-> BOOLEAN_OBJ, addr |-> <<"True", 0>>, BoolValue |-> TRUE]

False == [type |-> BOOLEAN_OBJ, addr |-> <<"False", 0>>, BoolValue |-> FALSE]

Null == [type |-> NULL_OBJ, addr |-> <<"Null", 0>>]

\* the nil interface value: an unset stack cell or global
nil == [type |-> "nil", addr |-> <<"nil", 0>>]

\* the object the compiler allocates for constant number i of the pool
ConstAddr(i) == <<"const", i>>

\* an object the VM allocates at run time
HeapAddr(n) == <<"heap", n>>

\* left == right on two object.Object interface values
SameObject(left, right) == left.addr = right.addr

NoErr == ""


---------------------------------------------------------------------------
(* internal/ast: the syntax tree the compiler consumes.  A node is a record *)
(* with its Go type in kind.  Go's Value field is named by its type here    *)
(* (Value, BoolValue, StrValue, Name) since the fields of a TLA+ record are *)
(* untyped.                                                                 *)

NoNode == [kind |-> "nil"]

Program(stmts) == [kind |-> "Program", Statements |-> stmts]

ExpressionStatement(e) == [kind |-> "ExpressionStatement", Expression |-> e]

LetStatement(name, e) == [kind |-> "LetStatement", Name |-> name, LetValue |-> e]

ReturnStatement(e) == [kind |-> "ReturnStatement", ReturnValue |-> e]

BlockStatement(stmts) == [kind |-> "BlockStatement", Statements |-> stmts]

IntegerLiteral(n) == [kind |-> "IntegerLiteral", Value |-> n]

BooleanLiteral(b) == [kind |-> "Boolean", BoolValue |-> b]

StringLiteral(s) == [kind |-> "StringLiteral", StrValue |-> s]

Identifier(name) == [kind |-> "Identifier", Name |-> name]

PrefixExpression(op, r) == [kind |-> "PrefixExpression", Operator |-> op, Right |-> r]

InfixExpression(op, l, r) == [kind |-> "InfixExpression", Operator |-> op, Left |-> l, Right |-> r]

IfExpression(c, cons, alt) == [kind |-> "IfExpression", Condition |-> c, Consequence |-> cons, Alternative |-> alt]

ArrayLiteral(els) == [kind |-> "ArrayLiteral", Elements |-> els]

\* Pairs map[Expression]Expression: the pairs in the order a range over
\* the map yields them; two key expressions are two entries of the map
\* even when they read the same.
HashLiteral(pairs) == [kind |-> "HashLiteral", Pairs |-> pairs]

Pair(k, v) == [Key |-> k, Value |-> v]

IndexExpression(l, i) == [kind |-> "IndexExpression", Left |-> l, Index |-> i]

FunctionLiteral(params, body) == [kind |-> "FunctionLiteral", Parameters |-> params, Body |-> body]

CallExpression(f, args) == [kind |-> "CallExpression", Function |-> f, Arguments |-> args]

\* node types for which Compile's type switch has no case
NodesWithoutCase == {"FunctionLiteral", "CallExpression", "ReturnStatement", "nil"}

---------------------------------------------------------------------------
(* internal/compiler: the symbol table *)

GlobalScope == "GLOBAL"
LocalScope == "LOCAL"
BuiltinScope == "BUILTIN"

NoTable == [none |-> TRUE]

EmptyStore == [n \in {} |-> 0]

NewSymbolTable == [Outer |-> NoTable, store |-> EmptyStore, numDefinitions |-> 0]

\* the zero Symbol, what a failed map lookup yields
NoSymbol == [Name |-> "", Scope |-> "", Index |-> 0]

\* Define returns the symbol; DefineTable is the table it leaves
DefineSymbol(s, name) ==
    [Name |-> name, Index |-> s.numDefinitions,
     Scope |-> IF s.Outer = NoTable THEN GlobalScope ELSE LocalScope]

\* Define without the increment of numDefinitions
DefineKeepsCount(s, name) ==
    [s EXCEPT !.store = (name :> DefineSymbol(s, name)) @@ s.store]

Define(s, name) ==
    [s EXCEPT !.store = (name :> DefineSymbol(s, name)) @@ s.store,
              !.numDefinitions = s.numDefinitions + 1]

\* NewEnclosedSymbolTable(outer)
NewEnclosedSymbolTable(outer) == [NewSymbolTable EXCEPT !.Outer = outer]

\* DefineBuiltin returns the symbol; DefineBuiltin is the table it leaves
DefineBuiltinSymbol(index, name) ==
    [Name |-> name, Index |-> index, Scope |-> BuiltinScope]

DefineBuiltin(s, index, name) ==
    [s EXCEPT !.store = (name :> DefineBuiltinSymbol(index, name)) @@ s.store]

RECURSIVE Resolve(_, _)
Resolve(s, name) ==
    IF name \in DOMAIN s.store
    THEN [symbol |-> s.store[name], ok |-> TRUE]
    ELSE IF s.Outer # NoTable
         THEN Resolve(s.Outer, name)
         ELSE [symbol |-> NoSymbol, ok |-> FALSE]

---------------------------------------------------------------------------
(* internal/compiler: the compiler.  Compile's error return value is kept   *)
(* in the field err of the compiler record (NoErr for nil); c.symbolTable   *)
(* is the table the compiler points to.                                     *)

EmittedInstruction(op, pos) == [Opcode |-> op, Position |-> pos]

NewWithState(s, consts) ==
    [instructions |-> <<>>,
     constants |-> consts,
     lastInstruction |-> EmittedInstruction(0, 0),
     previousInstruction |-> EmittedInstruction(0, 0),
     symbolTable |-> s,
     err |-> NoErr,
     trail |-> <<>>]

NewCompiler == NewWithState(NewSymbolTable, <<>>)

\* addInstruction returns the position Len(c.instructions) of the new instruction
addInstruction(c, ins) == [c EXCEPT !.instructions = c.instructions \o ins]

setLastInstruction(c, op, pos) ==
    [c EXCEPT !.previousInstruction = c.lastInstruction,
              !.lastInstruction = EmittedInstruction(op, pos)]

\* trail is the history of the compiler: what emit and removeLastPop left,
\* one entry per call, with the bytes the call took off the instructions
\* and what lastInstructionIsPop answered right before it
Noted(c, by, before) ==
    [c EXCEPT !.trail = Append(c.trail,
        [by |-> by,
         instructions |-> c.instructions,
         lastInstruction |-> c.lastInstruction,
         removed |-> SliceFrom(before.instructions, Len(c.instructions)),
         wasPop |-> before.lastInstruction.Opcode = OpPop,
         before |-> before.instructions])]

\* emit returns the position Len(c.instructions) of the emitted instruction
emit(c, op, operands) ==
    Noted(setLastInstruction(addInstruction(c, Make(op, operands)), op, Len(c.instructions)),
          "emit", c)

lastInstructionIsPop(c) == c.lastInstruction.Opcode = OpPop

\* removeLastPop that leaves lastInstruction on the instruction it removed
removeLastPopKeepsLast(c) ==
    Noted([c EXCEPT !.instructions = SliceTo(c.instructions, c.lastInstruction.Position)],
          "removeLastPop", c)

removeLastPop(c) ==
    Noted([c EXCEPT !.instructions = SliceTo(c.instructions, c.lastInstruction.Position),
                    !.lastInstruction = c.previousInstruction],
          "removeLastPop", c)

\* replaceInstruction whose loop stops one byte early
replaceInstructionOneByteShort(c, pos, newInstruction) ==
    [c EXCEPT !.instructions =
        [k \in 1 .. Len(c.instructions) |->
            IF k - 1 >= pos /\ k - 1 < pos + Len(newInstruction) - 1
            THEN newInstruction[k - pos]
            ELSE c.instructions[k]]]

replaceInstruction(c, pos, newInstruction) ==
    [c EXCEPT !.instructions =
        [k \in 1 .. Len(c.instructions) |->
            IF k - 1 >= pos /\ k - 1 < pos + Len(newInstruction)
            THEN newInstruction[k - pos]
            ELSE c.instructions[k]]]

changeOperand(c, opPos, operand) ==
    replaceInstruction(c, opPos, Make(At(c.instructions, opPos), <<operand>>))

\* addConstant returns the index Len(c.constants) of the appended object
\* addConstant putting the object in front of the pool
addConstantInFront(c, obj) == [c EXCEPT !.constants = <<obj>> \o c.constants]

addConstant(c, obj) == [c EXCEPT !.constants = Append(c.constants, obj)]

failCompile(c, msg) == [c EXCEPT !.err = msg]

ErrUnknownOperator == "unknown operator"

ErrUndefinedVariable == "undefined variable"

\* the opcode emitted for an infix operator other than "<"
InfixOpcode(operator) ==
    CASE operator = "+" -> OpAdd
      [] operator = "-" -> OpSubtract
      [] operator = "/" -> OpDivide
      [] operator = "*" -> OpMultiply
      [] operator = ">" -> OpGreaterThan
      [] operator = "==" -> OpEqual
      [] operator = "!=" -> OpNotEqual
      [] OTHER -> -1

PrefixOpcode(operator) ==
    CASE operator = "!" -> OpBang
      [] operator = "-" -> OpMinus
      [] OTHER -> -1

RECURSIVE Compile(_, _)
RECURSIVE CompileEach(_, _, _)

\* for _, s := range nodes { err := c.Compile(s); if err != nil { return err } }
\* the loop over the statements going on after a statement failed
CompileEachPastErrors(c, nodes, i) ==
    IF i > Len(nodes) THEN c
    ELSE LET c1 == Compile(c, nodes[i])
         IN  IF c1.err # NoErr
             THEN [CompileEach([c1 EXCEPT !.err = NoErr], nodes, i + 1)
                      EXCEPT !.err = c1.err]
             ELSE CompileEach(c1, nodes, i + 1)

CompileEach(c, nodes, i) ==
    IF i > Len(nodes) THEN c
    ELSE LET c1 == Compile(c, nodes[i])
         IN  IF c1.err # NoErr THEN c1 ELSE CompileEach(c1, nodes, i + 1)

\* CompileInfix with the operands of "<" compiled in source order
CompileInfixInSourceOrder(c, node) ==
    LET c1 == Compile(c, node.Left)
        c2 == Compile(c1, node.Right)
    IN  IF c1.err # NoErr THEN c1
        ELSE IF c2.err # NoErr THEN c2
        ELSE IF node.Operator = "<" THEN emit(c2, OpGreaterThan, <<>>)
        ELSE IF InfixOpcode(node.Operator) = -1
             THEN failCompile(c2, ErrUnknownOperator)
             ELSE emit(c2, InfixOpcode(node.Operator), <<>>)

CompileInfix(c, node) ==
    IF node.Operator = "<"
    THEN LET c1 == Compile(c, node.Right)
             c2 == Compile(c1, node.Left)
         IN  IF c1.err # NoErr THEN c1
             ELSE IF c2.err # NoErr THEN c2
             ELSE emit(c2, OpGreaterThan, <<>>)
    ELSE LET c1 == Compile(c, node.Left)
             c2 == Compile(c1, node.Right)
         IN  IF c1.err # NoErr THEN c1
             ELSE IF c2.err # NoErr THEN c2
             ELSE IF InfixOpcode(node.Operator) = -1
                  THEN failCompile(c2, ErrUnknownOperator)
                  ELSE emit(c2, InfixOpcode(node.Operator), <<>>)

CompilePrefix(c, node) ==
    LET c1 == Compile(c, node.Right)
    IN  IF c1.err # NoErr THEN c1
        ELSE IF PrefixOpcode(node.Operator) = -1
             THEN failCompile(c1, ErrUnknownOperator)
             ELSE emit(c1, PrefixOpcode(node.Operator), <<>>)

\* CompileIf that emits nothing when there is no alternative
CompileIfWithoutNull(c, node) ==
    LET c1 == Compile(c, node.Condition)
        jumpNotTruthyPos == Len(c1.instructions)
        c2 == emit(c1, OpJumpNotTruthy, <<9999>>)
        c3 == Compile(c2, node.Consequence)
        c4 == IF lastInstructionIsPop(c3) THEN removeLastPop(c3) ELSE c3
        jumpPos == Len(c4.instructions)
        c5 == emit(c4, OpJump, <<9999>>)
        afterConsequencePos == Len(c5.instructions)
        c6 == changeOperand(c5, jumpNotTruthyPos, afterConsequencePos)
        c7 == Compile(c6, node.Alternative)
        c8 == IF node.Alternative = NoNode
              THEN c6
              ELSE IF lastInstructionIsPop(c7) THEN removeLastPop(c7) ELSE c7
        afterAlternativePos == Len(c8.instructions)
    IN  IF c1.err # NoErr THEN c1
        ELSE IF c3.err # NoErr THEN c3
        ELSE IF node.Alternative # NoNode /\ c7.err # NoErr THEN c7
        ELSE changeOperand(c8, jumpPos, afterAlternativePos)

\* the if expression with OpJumpNotTruthy patched to the position of the
\* OpJump that ends the consequence
CompileIfJumpsToTheJump(c, node) ==
    LET c1 == Compile(c, node.Condition)
        jumpNotTruthyPos == Len(c1.instructions)
        c2 == emit(c1, OpJumpNotTruthy, <<9999>>)
        c3 == Compile(c2, node.Consequence)
        c4 == IF lastInstructionIsPop(c3) THEN removeLastPop(c3) ELSE c3
        jumpPos == Len(c4.instructions)
        c5 == emit(c4, OpJump, <<9999>>)
        c6 == changeOperand(c5, jumpNotTruthyPos, jumpPos)
        c7 == Compile(c6, node.Alternative)
        c8 == IF node.Alternative = NoNode
              THEN emit(c6, OpNull, <<>>)
              ELSE IF lastInstructionIsPop(c7) THEN removeLastPop(c7) ELSE c7
        afterAlternativePos == Len(c8.instructions)
    IN  IF c1.err # NoErr THEN c1
        ELSE IF c3.err # NoErr THEN c3
        ELSE IF node.Alternative # NoNode /\ c7.err # NoErr THEN c7
        ELSE changeOperand(c8, jumpPos, afterAlternativePos)

CompileIf(c, node) ==
    LET c1 == Compile(c, node.Condition)
        jumpNotTruthyPos == Len(c1.instructions)
        c2 == emit(c1, OpJumpNotTruthy, <<9999>>)
        c3 == Compile(c2, node.Consequence)
        c4 == IF lastInstructionIsPop(c3) THEN removeLastPop(c3) ELSE c3
        jumpPos == Len(c4.instructions)
        c5 == emit(c4, OpJump, <<9999>>)
        afterConsequencePos == Len(c5.instructions)
        c6 == changeOperand(c5, jumpNotTruthyPos, afterConsequencePos)
        c7 == Compile(c6, node.Alternative)
        c8 == IF node.Alternative = NoNode
              THEN emit(c6, OpNull, <<>>)
              ELSE IF lastInstructionIsPop(c7) THEN removeLastPop(c7) ELSE c7
        afterAlternativePos == Len(c8.instructions)
    IN  IF c1.err # NoErr THEN c1
        ELSE IF c3.err # NoErr THEN c3
        ELSE IF node.Alternative # NoNode /\ c7.err # NoErr THEN c7
        ELSE changeOperand(c8, jumpPos, afterAlternativePos)

\* the let statement with the name defined before the value is compiled
CompileLetDefinesFirst(c, node) ==
    LET symbol == DefineSymbol(c.symbolTable, node.Name)
        c0 == [c EXCEPT !.symbolTable = Define(c.symbolTable, node.Name)]
        c1 == Compile(c0, node.LetValue)
    IN  IF c1.err # NoErr THEN c1
        ELSE emit(c1, OpSetGlobal, <<symbol.Index>>)

CompileLet(c, node) ==
    LET c1 == Compile(c, node.LetValue)
        symbol == DefineSymbol(c1.symbolTable, node.Name)
        c2 == [c1 EXCEPT !.symbolTable = Define(c1.symbolTable, node.Name)]
    IN  IF c1.err # NoErr THEN c1
        ELSE emit(c2, OpSetGlobal, <<symbol.Index>>)

CompileIndex(c, node) ==
    LET c1 == Compile(c, node.Left)
        c2 == Compile(c1, node.Index)
    IN  IF c1.err # NoErr THEN c1
        ELSE IF c2.err # NoErr THEN c2
        ELSE emit(c2, OpIndex, <<>>)

CompileArray(c, node) ==
    LET c1 == CompileEach(c, node.Elements, 1)
    IN  IF c1.err # NoErr THEN c1
        ELSE emit(c1, OpArray, <<Len(node.Elements)>>)

\* The bytes of the Go strings that name identifiers.
BytesOf(name) ==
    CASE name = "g" -> <<103>>
      [] name = "h" -> <<104>>
      [] name = "k" -> <<107>>
      [] name = "l" -> <<108>>
      [] name = "u" -> <<117>>
      [] name = "x" -> <<120>>
      [] name = "len" -> <<108, 101, 110>>
      [] OTHER -> <<63>>

\* The decimal digits of a natural number, as bytes.
DecimalDigits(n) ==
    IF n < 10 THEN <<48 + n>>
    ELSE IF n < 100 THEN <<48 + (n \div 10), 48 + (n % 10)>>
    ELSE <<48 + (n \div 100), 48 + ((n \div 10) % 10), 48 + (n % 10)>>

\* func (i *Identifier) String() string { return i.Value }
IdentifierString(node) == BytesOf(node.Name)

\* The textual form of a literal: the literal of its token.
LiteralString(node) ==
    CASE node.kind = "IntegerLiteral" ->
           IF node.Value < 0 THEN <<45>> \o DecimalDigits(-node.Value)
           ELSE DecimalDigits(node.Value)
      [] node.kind = "Boolean" ->
           IF node.BoolValue THEN <<116, 114, 117, 101>>
           ELSE <<102, 97, 108, 115, 101>>
      [] node.kind = "StringLiteral" ->
           [i \in 1..Len(node.StrValue) |->
               IF node.StrValue[i] = "a" THEN 97 ELSE 98]
      [] OTHER -> <<63>>

NodeString(node) ==
    IF node.kind = "Identifier" THEN IdentifierString(node)
    ELSE LiteralString(node)

\* The comparison < of two Go strings: byte by byte, a proper prefix first.
RECURSIVE StringLess(_, _)
StringLess(a, b) ==
    IF b = <<>> THEN FALSE
    ELSE IF a = <<>> THEN TRUE
    ELSE IF Head(a) # Head(b) THEN Head(a) < Head(b)
    ELSE StringLess(Tail(a), Tail(b))

\* sort.Slice(keys, func(i, j int) bool { return keys[i].String() < keys[j].String() })
\* sort.Slice sorts fewer than 12 elements by insertion: an element moves
\* left while it is less than the element before it, so that elements of
\* the same textual form keep the order they arrived in.
RECURSIVE insertionSort(_)
RECURSIVE insertKey(_, _)
insertKey(sorted, p) ==
    IF sorted = <<>> THEN <<p>>
    ELSE LET n == Len(sorted)
         IN  IF StringLess(NodeString(p.Key), NodeString(sorted[n].Key))
             THEN insertKey(SubSeq(sorted, 1, n - 1), p) \o <<sorted[n]>>
             ELSE sorted \o <<p>>

insertionSort(pairs) ==
    IF pairs = <<>> THEN <<>>
    ELSE LET n == Len(pairs)
         IN  insertKey(insertionSort(SubSeq(pairs, 1, n - 1)), pairs[n])

sortSlice(pairs) == insertionSort(pairs)

\* for _, k := range keys { c.Compile(k); c.Compile(node.Pairs[k]) }
RECURSIVE KeysAndValues(_)
KeysAndValues(pairs) ==
    IF pairs = <<>> THEN <<>>
    ELSE <<Head(pairs).Key, Head(pairs).Value>> \o KeysAndValues(Tail(pairs))

\* case *ast.HashLiteral: node.Pairs is a Go map from key expression to
\* value expression; the model holds its pairs in the order the range over
\* the map yields them in this run.
CompileHash(c, node) ==
    LET keys == sortSlice(node.Pairs)
        c1 == CompileEach(c, KeysAndValues(keys), 1)
    IN  IF c1.err # NoErr THEN c1
        ELSE emit(c1, OpHash, <<Len(node.Pairs) * 2>>)

CompileIdentifier(c, node) ==
    LET r == Resolve(c.symbolTable, node.Name)
    IN  IF ~r.ok THEN failCompile(c, ErrUndefinedVariable)
        ELSE emit(c, OpGetGlobal, <<r.symbol.Index>>)

Compile(c, node) ==
    CASE node.kind \in {"Program", "BlockStatement"} ->
            CompileEach(c, node.Statements, 1)
      [] node.kind = "ExpressionStatement" ->
            LET c1 == Compile(c, node.Expression)
            IN  IF c1.err # NoErr THEN c1 ELSE emit(c1, OpPop, <<>>)
      [] node.kind = "InfixExpression" -> CompileInfix(c, node)
      [] node.kind = "PrefixExpression" -> CompilePrefix(c, node)
      [] node.kind = "IfExpression" -> CompileIf(c, node)
      [] node.kind = "LetStatement" -> CompileLet(c, node)
      [] node.kind = "IndexExpression" -> CompileIndex(c, node)
      [] node.kind = "ArrayLiteral" -> CompileArray(c, node)
      [] node.kind = "HashLiteral" -> CompileHash(c, node)
      [] node.kind = "StringLiteral" ->
            emit(addConstant(c, String(ConstAddr(Len(c.constants)), node.StrValue)),
                 OpConstant, <<Len(c.constants)>>)
      [] node.kind = "IntegerLiteral" ->
            emit(addConstant(c, Integer(ConstAddr(Len(c.constants)), node.Value)),
                 OpConstant, <<Len(c.constants)>>)
      [] node.kind = "Identifier" -> CompileIdentifier(c, node)
      [] node.kind = "Boolean" ->
            IF node.BoolValue THEN emit(c, OpTrue, <<>>) ELSE emit(c, OpFalse, <<>>)
      [] node.kind \in NodesWithoutCase -> c

\* Bytecode()
Bytecode(c) == [Instructions |-> c.instructions, Constants |-> c.constants]

---------------------------------------------------------------------------
(* internal/vm: the virtual machine.  A function of vm.go that returns an   *)
(* error is an operator that yields a result record: the VM it leaves, the  *)
(* error it returns (NoErr for nil) and the panic it raises (NoErr when it  *)
(* returns normally).                                                       *)

Ok(v) == [vm |-> v, err |-> NoErr, panic |-> NoErr]

Err(v, e) == [vm |-> v, err |-> e, panic |-> NoErr]

Crash(v, p) == [vm |-> v, err |-> NoErr, panic |-> p]

\* an index out of range other than a stack index: an operand read past the
\* end of the instructions, a constant index, a frames index
PanicIndex == "index out of range"

\* vm.stack[i] with i < 0
PanicStackIndex == "stack index out of range"

PanicNilDeref == "nil pointer dereference"

PanicDivide == "integer divide by zero"

ErrStackOverflow == "stack overflow"

ErrCallingNonFunction == "calling non-function"

ErrUnsupportedNegation == "unsupported type for negation"

ErrUnknownComparison == "unknown operator"

ErrUnsupportedBinary == "unsupported types for binary operation"

ErrUnknownStringOperator == "unknown string operator"

ErrUnknownIntegerOperator == "unknown integer operator"

ErrUnusableHashKey == "unusable as hash key"

ErrIndexNotSupported == "index operator not supported"

\* NewFrame(fn)
NewFrame(fn) == [fn |-> fn, ip |-> -1]

\* a cell of the frames array that holds no frame (a nil *Frame)
NoFrame == [fn |-> nil, ip |-> 0]

MainFnAddr == <<"main", 0>>

\* New(bytecode).  globals is the slice of GlobalsSize nil cells, kept as the
\* function from the indices written so far to their values.
New(bytecode) ==
    [constants |-> bytecode.Constants,
     stack |-> [i \in 0 .. StackSize - 1 |-> nil],
     sp |-> 0,
     globals |-> [i \in {} |-> nil],
     frames |-> [i \in 0 .. MaxFrames - 1 |->
                    IF i = 0 THEN NewFrame(CompiledFunction(MainFnAddr, bytecode.Instructions))
                    ELSE NoFrame],
     framesIndex |-> 1]

\* vm.globals[i]
GlobalAt(v, i) == IF i \in DOMAIN v.globals THEN v.globals[i] ELSE nil

currentFrame(v) == v.frames[v.framesIndex - 1]

\* frame.Instructions()
Instructions(f) == f.fn.Instructions

\* vm.currentFrame().ip += n
advanceIp(v, n) == [v EXCEPT !.frames[v.framesIndex - 1].ip = @ + n]

setIp(v, pos) == [v EXCEPT !.frames[v.framesIndex - 1].ip = pos]

push(v, o) ==
    IF v.sp >= StackSize
    THEN Err(v, ErrStackOverflow)
    ELSE Ok([v EXCEPT !.stack[v.sp] = o, !.sp = v.sp + 1])

\* pop reads vm.stack[vm.sp-1], which panics when sp is 0
popPanics(v) == v.sp - 1 < 0 \/ v.sp - 1 >= StackSize

\* the object pop returns
popObject(v) == v.stack[v.sp - 1]

\* the VM pop leaves
pop(v) == [v EXCEPT !.sp = v.sp - 1]

\* LastPoppedStackElem reads vm.stack[vm.sp]
LastPoppedStackElem(v) == v.stack[v.sp]

nativeBoolToBooleanObject(input) == IF input THEN True ELSE False

\* isTruthy with the Integer 0 taken as false
isTruthyZeroIsFalse(obj) ==
    CASE obj.type = BOOLEAN_OBJ -> obj.BoolValue
      [] obj.type = NULL_OBJ -> FALSE
      [] obj.type = INTEGER_OBJ -> obj.Value # 0
      [] OTHER -> TRUE

isTruthy(obj) ==
    CASE obj.type = BOOLEAN_OBJ -> obj.BoolValue
      [] obj.type = NULL_OBJ -> FALSE
      [] OTHER -> TRUE

\* Go's integer division truncates toward zero
TruncDiv(a, b) ==
    LET absA == IF a < 0 THEN -a ELSE a
        absB == IF b < 0 THEN -b ELSE b
    IN  IF (a < 0) = (b < 0) THEN absA \div absB ELSE -(absA \div absB)

\* IntegerResult with the operands taken in the order they are popped
IntegerResultRightFirst(op, leftValue, rightValue) ==
    CASE op = OpAdd -> WrapInt(rightValue + leftValue)
      [] op = OpSubtract -> WrapInt(rightValue - leftValue)
      [] op = OpMultiply -> WrapInt(rightValue * leftValue)
      [] op = OpDivide -> WrapInt(TruncDiv(rightValue, leftValue))

\* the int64 result of the switch of executeBinaryIntegerOperation
IntegerResult(op, leftValue, rightValue) ==
    CASE op = OpAdd -> WrapInt(leftValue + rightValue)
      [] op = OpSubtract -> WrapInt(leftValue - rightValue)
      [] op = OpMultiply -> WrapInt(leftValue * rightValue)
      [] op = OpDivide -> WrapInt(TruncDiv(leftValue, rightValue))

executeBinaryIntegerOperation(v, op, left, right, h) ==
    IF op \notin {OpAdd, OpSubtract, OpMultiply, OpDivide}
    THEN Err(v, ErrUnknownIntegerOperator)
    ELSE IF op = OpDivide /\ right.Value = 0
    THEN Crash(v, PanicDivide)
    ELSE push(v, Integer(h, IntegerResult(op, left.Value, right.Value)))

\* executeBinaryStringOperation without its check of the operator
executeBinaryStringOperationAnyOperator(v, op, left, right, h) ==
    push(v, String(h, left.StrValue \o right.StrValue))

executeBinaryStringOperation(v, op, left, right, h) ==
    IF op # OpAdd
    THEN Err(v, ErrUnknownStringOperator)
    ELSE push(v, String(h, left.StrValue \o right.StrValue))

executeBinaryOperation(v, op, h) ==
    IF popPanics(v) THEN Crash(v, PanicStackIndex)
    ELSE LET right == popObject(v)
             v1 == pop(v)
         IN  IF popPanics(v1) THEN Crash(v1, PanicStackIndex)
             ELSE LET left == popObject(v1)
                      v2 == pop(v1)
                  IN  IF left = nil \/ right = nil THEN Crash(v2, PanicNilDeref)
                      ELSE IF left.type = INTEGER_OBJ /\ right.type = INTEGER_OBJ
                      THEN executeBinaryIntegerOperation(v2, op, left, right, h)
                      ELSE IF left.type = STRING_OBJ /\ right.type = STRING_OBJ
                      THEN executeBinaryStringOperation(v2, op, left, right, h)
                      ELSE Err(v2, ErrUnsupportedBinary)

executeIntegerComparison(v, op, left, right) ==
    CASE op = OpEqual -> push(v, nativeBoolToBooleanObject(right.Value = left.Value))
      [] op = OpNotEqual -> push(v, nativeBoolToBooleanObject(right.Value # left.Value))
      [] op = OpGreaterThan -> push(v, nativeBoolToBooleanObject(left.Value > right.Value))
      [] OTHER -> Err(v, ErrUnknownComparison)

\* executeComparisonOperation without its branch for two Integers
executeComparisonOperationByIdentity(v, op) ==
    IF popPanics(v) THEN Crash(v, PanicStackIndex)
    ELSE LET right == popObject(v)
             v1 == pop(v)
         IN  IF popPanics(v1) THEN Crash(v1, PanicStackIndex)
             ELSE LET left == popObject(v1)
                      v2 == pop(v1)
                  IN  CASE op = OpEqual ->
                             push(v2, nativeBoolToBooleanObject(SameObject(right, left)))
                        [] op = OpNotEqual ->
                             push(v2, nativeBoolToBooleanObject(~SameObject(right, left)))
                        [] OTHER -> Err(v2, ErrUnknownComparison)

executeComparisonOperation(v, op) ==
    IF popPanics(v) THEN Crash(v, PanicStackIndex)
    ELSE LET right == popObject(v)
             v1 == pop(v)
         IN  IF popPanics(v1) THEN Crash(v1, PanicStackIndex)
             ELSE LET left == popObject(v1)
                      v2 == pop(v1)
                  IN  IF left = nil \/ (left.type = INTEGER_OBJ /\ right = nil)
                      THEN Crash(v2, PanicNilDeref)
                      ELSE IF left.type = INTEGER_OBJ /\ right.type = INTEGER_OBJ
                      THEN executeIntegerComparison(v2, op, left, right)
                      ELSE CASE op = OpEqual ->
                                  push(v2, nativeBoolToBooleanObject(SameObject(right, left)))
                             [] op = OpNotEqual ->
                                  push(v2, nativeBoolToBooleanObject(~SameObject(right, left)))
                             [] OTHER ->
                                  IF right = nil THEN Crash(v2, PanicNilDeref)
                                  ELSE Err(v2, ErrUnknownComparison)

\* executeBangOperator without its case for Null
executeBangOperatorWithoutNull(v) ==
    IF popPanics(v) THEN Crash(v, PanicStackIndex)
    ELSE LET operand == popObject(v)
             v1 == pop(v)
         IN  CASE operand = True -> push(v1, False)
               [] operand = False -> push(v1, True)
               [] OTHER -> push(v1, False)

executeBangOperator(v) ==
    IF popPanics(v) THEN Crash(v, PanicStackIndex)
    ELSE LET operand == popObject(v)
             v1 == pop(v)
         IN  CASE operand = True -> push(v1, False)
               [] operand = False -> push(v1, True)
               [] operand = Null -> push(v1, True)
               [] OTHER -> push(v1, False)

executeMinusOperator(v, h) ==
    IF popPanics(v) THEN Crash(v, PanicStackIndex)
    ELSE LET operand == popObject(v)
             v1 == pop(v)
         IN  IF operand = nil THEN Crash(v1, PanicNilDeref)
             ELSE IF operand.type # INTEGER_OBJ THEN Err(v1, ErrUnsupportedNegation)
             ELSE push(v1, Integer(h, WrapInt(-operand.Value)))

\* object.Hashable: Integer, Boolean and String implement HashKey()
Hashable(obj) == obj.type \in {INTEGER_OBJ, BOOLEAN_OBJ, STRING_OBJ}

\* obj.HashKey(): the type tag and a hash of the value (the value itself for an
\* Integer, 1 or 0 for a Boolean, a hash of the text for a String)
HashKey(obj) ==
    CASE obj.type = INTEGER_OBJ -> <<INTEGER_OBJ, obj.Value>>
      [] obj.type = BOOLEAN_OBJ -> <<BOOLEAN_OBJ, IF obj.BoolValue THEN 1 ELSE 0>>
      [] obj.type = STRING_OBJ -> <<STRING_OBJ, obj.StrValue>>

HashPair(key, value) == [Key |-> key, Value |-> value]

\* buildArray reads vm.stack[startIndex .. endIndex-1]
buildArrayPanics(v, startIndex, endIndex) == startIndex < endIndex /\ startIndex < 0

buildArray(v, startIndex, endIndex, h) ==
    Array(h, [k \in 1 .. endIndex - startIndex |-> v.stack[startIndex + k - 1]])

\* buildHash walks the pairs i = startIndex, startIndex+2, ... below endIndex;
\* the result has the map built so far in pairs
RECURSIVE buildHashFrom(_, _, _, _)
buildHashFrom(v, i, endIndex, hashedPairs) ==
    IF i >= endIndex THEN [pairs |-> hashedPairs, err |-> NoErr, panic |-> NoErr]
    ELSE IF i < 0 \/ i + 1 >= StackSize
    THEN [pairs |-> hashedPairs, err |-> NoErr, panic |-> PanicStackIndex]
    ELSE LET key == v.stack[i]
             value == v.stack[i + 1]
         IN  IF key = nil
             THEN [pairs |-> hashedPairs, err |-> NoErr, panic |-> PanicNilDeref]
             ELSE IF ~Hashable(key)
             THEN [pairs |-> hashedPairs, err |-> ErrUnusableHashKey, panic |-> NoErr]
             ELSE buildHashFrom(v, i + 2, endIndex,
                                (HashKey(key) :> HashPair(key, value)) @@ hashedPairs)

buildHash(v, startIndex, endIndex) ==
    buildHashFrom(v, startIndex, endIndex, [k \in {} |-> HashPair(nil, nil)])

\* the array index with an index out of range as an error
executeArrayIndexOutOfRangeIsError(v, array, index) ==
    LET i == index.Value
        max == Len(array.Elements) - 1
    IN  IF i < 0 \/ i > max THEN Err(v, ErrIndexNotSupported)
        ELSE push(v, At(array.Elements, i))

executeArrayIndex(v, array, index) ==
    LET i == index.Value
        max == Len(array.Elements) - 1
    IN  IF i < 0 \/ i > max THEN push(v, Null)
        ELSE push(v, At(array.Elements, i))

executeHashIndex(v, hash, index) ==
    IF index = nil THEN Crash(v, PanicNilDeref)
    ELSE IF ~Hashable(index) THEN Err(v, ErrUnusableHashKey)
    ELSE IF HashKey(index) \notin DOMAIN hash.Pairs THEN push(v, Null)
    ELSE push(v, hash.Pairs[HashKey(index)].Value)

executeIndexExpression(v, left, index) ==
    IF left = nil THEN Crash(v, PanicNilDeref)
    ELSE IF left.type = ARRAY_OBJ /\ index = nil THEN Crash(v, PanicNilDeref)
    ELSE IF left.type = ARRAY_OBJ /\ index.type = INTEGER_OBJ
    THEN executeArrayIndex(v, left, index)
    ELSE IF left.type = HASH_OBJ
    THEN executeHashIndex(v, left, index)
    ELSE Err(v, ErrIndexNotSupported)

\* pushFrame writes vm.frames[vm.framesIndex], which panics when the array is full
pushFramePanics(v) == v.framesIndex < 0 \/ v.framesIndex >= MaxFrames

pushFrame(v, f) == [v EXCEPT !.frames[v.framesIndex] = f, !.framesIndex = v.framesIndex + 1]

\* popFrame decrements framesIndex and then reads vm.frames[vm.framesIndex]
popFramePanics(v) == v.framesIndex - 1 < 0

popFrame(v) == [v EXCEPT !.framesIndex = v.framesIndex - 1]

---------------------------------------------------------------------------
(* Run: one iteration of the loop per opcode.  Each Run... operator takes   *)
(* the VM after vm.currentFrame().ip++ and yields what the case does: the   *)
(* VM it leaves and whether Run goes on ("continue"), returns ("return",    *)
(* with the error returned, NoErr for nil) or panics ("panic").             *)

\* failed is the error the case got from the function it called, whatever
\* the case then did with it
Continue(v) == [vm |-> v, ret |-> "continue", err |-> NoErr, failed |-> NoErr]

Return(v, e) == [vm |-> v, ret |-> "return", err |-> e, failed |-> e]

Panics(v, p) == [vm |-> v, ret |-> "panic", err |-> p, failed |-> NoErr]

\* Propagate with the error dropped, as the comparison case drops it
PropagateReturnsNil(r) ==
    IF r.panic # NoErr THEN Panics(r.vm, r.panic)
    ELSE IF r.err # NoErr THEN [Return(r.vm, NoErr) EXCEPT !.failed = r.err]
    ELSE Continue(r.vm)

\* err := f(); if err != nil { return err }
Propagate(r) ==
    IF r.panic # NoErr THEN Panics(r.vm, r.panic)
    ELSE IF r.err # NoErr THEN Return(r.vm, r.err)
    ELSE Continue(r.vm)

\* err := f(); if err != nil { return nil }
Swallow(r) ==
    IF r.panic # NoErr THEN Panics(r.vm, r.panic)
    ELSE IF r.err # NoErr THEN [Return(r.vm, NoErr) EXCEPT !.failed = r.err]
    ELSE Continue(r.vm)

\* ip and ins of the iteration
Ip(v) == currentFrame(v).ip

Ins(v) == Instructions(currentFrame(v))

\* code.ReadUInt16(ins[ip+1:]) panics when fewer than two bytes follow
OperandPanics(v) == ~CanReadUInt16(SliceFrom(Ins(v), Ip(v) + 1))

Operand16(v) == ReadUInt16(SliceFrom(Ins(v), Ip(v) + 1))

RunConstant(v) ==
    IF OperandPanics(v) THEN Panics(v, PanicIndex)
    ELSE LET constIndex == Operand16(v)
             v1 == advanceIp(v, 2)
         IN  IF ~InRange(v.constants, constIndex) THEN Panics(v1, PanicIndex)
             ELSE Propagate(push(v1, At(v.constants, constIndex)))

RunPop(v) == IF popPanics(v) THEN Panics(v, PanicStackIndex) ELSE Continue(pop(v))

RunBinary(v, op, h) == Propagate(executeBinaryOperation(v, op, h))

RunComparison(v, op) == Swallow(executeComparisonOperation(v, op))

RunTrue(v) == Propagate(push(v, True))

RunFalse(v) == Propagate(push(v, False))

RunBang(v) == Swallow(executeBangOperator(v))

RunMinus(v, h) == Propagate(executeMinusOperator(v, h))

RunJump(v) ==
    IF OperandPanics(v) THEN Panics(v, PanicIndex)
    ELSE Continue(setIp(v, Operand16(v) - 1))

RunJumpNotTruthy(v) ==
    IF OperandPanics(v) THEN Panics(v, PanicIndex)
    ELSE LET pos == Operand16(v)
             v1 == advanceIp(v, 2)
         IN  IF popPanics(v1) THEN Panics(v1, PanicStackIndex)
             ELSE IF ~isTruthy(popObject(v1))
                  THEN Continue(setIp(pop(v1), pos - 1))
                  ELSE Continue(pop(v1))

RunNull(v) == Propagate(push(v, Null))

\* OpSetGlobal storing into the first global whatever its operand
RunSetGlobalAtZero(v) ==
    IF OperandPanics(v) THEN Panics(v, PanicIndex)
    ELSE LET v1 == advanceIp(v, 2)
         IN  IF popPanics(v1) THEN Panics(v1, PanicStackIndex)
             ELSE Continue([pop(v1) EXCEPT !.globals = (0 :> popObject(v1)) @@ v1.globals])

\* OpSetGlobal storing into the constants
RunSetGlobalIntoConstants(v) ==
    IF OperandPanics(v) THEN Panics(v, PanicIndex)
    ELSE LET globalIndex == Operand16(v)
             v1 == advanceIp(v, 2)
         IN  IF popPanics(v1) THEN Panics(v1, PanicStackIndex)
             ELSE IF ~InRange(v1.constants, globalIndex) THEN Panics(pop(v1), PanicIndex)
             ELSE Continue([pop(v1) EXCEPT !.constants[globalIndex + 1] = popObject(v1)])

RunSetGlobal(v) ==
    IF OperandPanics(v) THEN Panics(v, PanicIndex)
    ELSE LET globalIndex == Operand16(v)
             v1 == advanceIp(v, 2)
         IN  IF popPanics(v1) THEN Panics(v1, PanicStackIndex)
             ELSE IF globalIndex >= GlobalsSize THEN Panics(pop(v1), PanicIndex)
             ELSE Continue([pop(v1) EXCEPT !.globals =
                                (globalIndex :> popObject(v1)) @@ v1.globals])

RunGetGlobal(v) ==
    IF OperandPanics(v) THEN Panics(v, PanicIndex)
    ELSE LET globalIndex == Operand16(v)
             v1 == advanceIp(v, 2)
         IN  IF globalIndex >= GlobalsSize THEN Panics(v1, PanicIndex)
             ELSE Propagate(push(v1, GlobalAt(v1, globalIndex)))

RunArray(v, h) ==
    IF OperandPanics(v) THEN Panics(v, PanicIndex)
    ELSE LET numElements == Operand16(v)
             v1 == advanceIp(v, 2)
         IN  IF buildArrayPanics(v1, v1.sp - numElements, v1.sp) THEN Panics(v1, PanicStackIndex)
             ELSE Propagate(push([v1 EXCEPT !.sp = v1.sp - numElements],
                                 buildArray(v1, v1.sp - numElements, v1.sp, h)))

\* OpHash with sp taken down before the keys are looked at
RunHashShrinksFirst(v, h) ==
    IF OperandPanics(v) THEN Panics(v, PanicIndex)
    ELSE LET numElements == Operand16(v)
             v1 == advanceIp(v, 2)
             built == buildHash(v1, v1.sp - numElements, v1.sp)
             v2 == [v1 EXCEPT !.sp = v1.sp - numElements]
         IN  IF built.panic # NoErr THEN Panics(v1, built.panic)
             ELSE IF built.err # NoErr THEN Return(v2, built.err)
             ELSE Propagate(push(v2, Hash(h, built.pairs)))

RunHash(v, h) ==
    IF OperandPanics(v) THEN Panics(v, PanicIndex)
    ELSE LET numElements == Operand16(v)
             v1 == advanceIp(v, 2)
             built == buildHash(v1, v1.sp - numElements, v1.sp)
         IN  IF built.panic # NoErr THEN Panics(v1, built.panic)
             ELSE IF built.err # NoErr THEN Return(v1, built.err)
             ELSE Propagate(push([v1 EXCEPT !.sp = v1.sp - numElements],
                                 Hash(h, built.pairs)))

RunIndex(v) ==
    IF popPanics(v) THEN Panics(v, PanicStackIndex)
    ELSE LET index == popObject(v)
             v1 == pop(v)
         IN  IF popPanics(v1) THEN Panics(v1, PanicStackIndex)
             ELSE Propagate(executeIndexExpression(pop(v1), popObject(v1), index))

RunCall(v) ==
    IF popPanics(v) THEN Panics(v, PanicStackIndex)
    ELSE LET fn == popObject(v)
         IN  IF fn.type # COMPILED_FUNCTION_OBJ THEN Return(v, ErrCallingNonFunction)
             ELSE IF pushFramePanics(v) THEN Panics(v, PanicIndex)
             ELSE Continue(pushFrame(v, NewFrame(fn)))

RunReturnValue(v) ==
    IF popPanics(v) THEN Panics(v, PanicStackIndex)
    ELSE LET returnValue == popObject(v)
             v1 == pop(v)
         IN  IF popFramePanics(v1) THEN Panics(v1, PanicIndex)
             ELSE IF popPanics(popFrame(v1)) THEN Panics(popFrame(v1), PanicStackIndex)
             ELSE Propagate(push(pop(popFrame(v1)), returnValue))

RunReturn(v) ==
    IF popFramePanics(v) THEN Panics(v, PanicIndex)
    ELSE IF popPanics(popFrame(v)) THEN Panics(popFrame(v), PanicStackIndex)
    ELSE Propagate(push(pop(popFrame(v)), Null))

---------------------------------------------------------------------------
(* The inputs: syntax trees handed to Compile, and bytecode handed to New   *)
(* directly (Run executes whatever instruction bytes it is given).          *)

IntLits == -MaxLit .. MaxLit

IntAtoms == {IntegerLiteral(n) : n \in IntLits}

Atoms ==
    IntAtoms \cup {BooleanLiteral(TRUE), BooleanLiteral(FALSE),
                   StringLiteral(<<"a">>), StringLiteral(<<"b">>)}

ArithOperators == {"+", "-", "*", "/"}

CompareOperators == {"<", ">", "==", "!="}

\* "%" and "~" are operators the compiler does not know
InfixOperators == ArithOperators \cup CompareOperators \cup {"%"}

PrefixOperators == {"!", "-", "~"}

\* a op b over all atoms
FlatInfix == {InfixExpression(op, a, b) : op \in InfixOperators, a \in Atoms, b \in Atoms}

\* (a op b) op c and a op (b op c) over the integers
ArithTrees ==
    {InfixExpression(op1, InfixExpression(op2, a, b), c) :
        op1 \in ArithOperators, op2 \in ArithOperators,
        a \in IntAtoms, b \in IntAtoms, c \in IntAtoms}
    \cup
    {InfixExpression(op1, a, InfixExpression(op2, b, c)) :
        op1 \in ArithOperators, op2 \in ArithOperators,
        a \in IntAtoms, b \in IntAtoms, c \in IntAtoms}

Prefixes ==
    {PrefixExpression(op, a) : op \in PrefixOperators, a \in Atoms}
    \cup {PrefixExpression(op1, PrefixExpression(op2, a)) :
            op1 \in {"!", "-"}, op2 \in {"!", "-"}, a \in Atoms}

\* the blocks of an if expression: empty, ending in an expression statement,
\* ending in a let statement, of one statement that compiles to OpPop alone
Blocks ==
    {BlockStatement(<<>>),
     BlockStatement(<<ExpressionStatement(IntegerLiteral(1))>>),
     BlockStatement(<<ExpressionStatement(IntegerLiteral(2))>>),
     BlockStatement(<<ExpressionStatement(IntegerLiteral(1)),
                      ExpressionStatement(BooleanLiteral(TRUE))>>),
     BlockStatement(<<LetStatement("a", IntegerLiteral(1))>>),
     BlockStatement(<<ExpressionStatement(IntegerLiteral(2)),
                      LetStatement("a", IntegerLiteral(1))>>),
     BlockStatement(<<ExpressionStatement(FunctionLiteral(<<>>, BlockStatement(<<>>)))>>)}

Conditions ==
    {BooleanLiteral(TRUE), BooleanLiteral(FALSE), IntegerLiteral(0),
     InfixExpression("<", IntegerLiteral(1), IntegerLiteral(2)),
     InfixExpression(">", IntegerLiteral(1), IntegerLiteral(2)),
     InfixExpression(">", BooleanLiteral(TRUE), IntegerLiteral(2))}

Ifs ==
    {IfExpression(c, cons, alt) :
        c \in Conditions, cons \in Blocks, alt \in Blocks \cup {NoNode}}

\* an if expression as the value of a branch of another one
InnerIfs ==
    {IfExpression(c, BlockStatement(<<ExpressionStatement(IntegerLiteral(1))>>), alt) :
        c \in {BooleanLiteral(TRUE), BooleanLiteral(FALSE)},
        alt \in {NoNode, BlockStatement(<<ExpressionStatement(IntegerLiteral(2))>>)}}

NestedIfs ==
    {IfExpression(c, BlockStatement(<<ExpressionStatement(inner)>>), alt) :
        c \in {BooleanLiteral(TRUE), BooleanLiteral(FALSE)},
        inner \in InnerIfs,
        alt \in {NoNode} \cup {BlockStatement(<<ExpressionStatement(i)>>) : i \in InnerIfs}}

Collections ==
    {ArrayLiteral(<<>>),
     ArrayLiteral(<<IntegerLiteral(1), IntegerLiteral(2)>>)}
    \cup {IndexExpression(ArrayLiteral(<<IntegerLiteral(1), IntegerLiteral(2)>>), i) :
            i \in Atoms \cup {IntegerLiteral(3)}}
    \cup {IndexExpression(ArrayLiteral(<<>>), i) : i \in IntAtoms}

Unsupported ==
    {FunctionLiteral(<<>>, BlockStatement(<<ExpressionStatement(IntegerLiteral(1))>>)),
     CallExpression(Identifier("f"), <<>>)}

\* operands that compile, that name no variable, that carry an operator the
\* compiler does not know
FailingOperands ==
    {IntegerLiteral(1), Identifier("u"), PrefixExpression("~", IntegerLiteral(2)),
     PrefixExpression("-", Identifier("u"))}

FailingInfix ==
    {InfixExpression(op, a, b) :
        op \in {"+", "<", "%"}, a \in FailingOperands, b \in FailingOperands}

Expressions ==
    FlatInfix \cup ArithTrees \cup Prefixes \cup Ifs \cup NestedIfs \cup Collections
    \cup Unsupported \cup FailingInfix

\* a statement in front of the last one
Leading ==
    {ExpressionStatement(IntegerLiteral(2)),
     ExpressionStatement(InfixExpression(">", BooleanLiteral(TRUE), BooleanLiteral(FALSE))),
     LetStatement("x", IntegerLiteral(2)),
     ExpressionStatement(Identifier("u")),
     ExpressionStatement(InfixExpression("%", IntegerLiteral(1), IntegerLiteral(2))),
     ExpressionStatement(IfExpression(BooleanLiteral(FALSE),
                                      BlockStatement(<<LetStatement("x", IntegerLiteral(1))>>),
                                      NoNode))}

Trailing ==
    {ExpressionStatement(IntegerLiteral(1)),
     ExpressionStatement(Identifier("x")),
     ExpressionStatement(InfixExpression("+", Identifier("x"), IntegerLiteral(1))),
     ExpressionStatement(InfixExpression("==", Identifier("x"), Identifier("x"))),
     ExpressionStatement(PrefixExpression("-", Identifier("x"))),
     LetStatement("y", IntegerLiteral(1)),
     LetStatement("x", Identifier("x")),
     LetStatement("x", InfixExpression("+", Identifier("x"), IntegerLiteral(1))),
     ReturnStatement(IntegerLiteral(1))}

\* let x = a; let y = x + b; y
LetChains ==
    {Program(<<LetStatement("x", IntegerLiteral(a)),
               LetStatement("y", InfixExpression("+", Identifier("x"), IntegerLiteral(b))),
               ExpressionStatement(Identifier("y"))>>) :
        a \in {1, 5}, b \in {2, 10}}

\* hash literals: the keys are a variable, integers whose textual order is
\* not their numeric order, a string; two pairs of a literal may carry keys
\* that read the same.  Every order of the pairs is an order in which a
\* range over the map may yield them.
HashKeys ==
    {Identifier("g"), IntegerLiteral(1), IntegerLiteral(2), IntegerLiteral(10),
     StringLiteral(<<"a">>)}

HashValues == {BooleanLiteral(TRUE), BooleanLiteral(FALSE), IntegerLiteral(1)}

HashPairs == {Pair(k, v) : k \in HashKeys, v \in HashValues}

HashLiterals ==
    {HashLiteral(<<>>)}
    \cup {HashLiteral(<<p>>) : p \in HashPairs}
    \cup {HashLiteral(<<p, q>>) : p \in HashPairs, q \in HashPairs}
    \cup {HashLiteral(<<Pair(IntegerLiteral(a), BooleanLiteral(TRUE)),
                        Pair(IntegerLiteral(b), BooleanLiteral(FALSE)),
                        Pair(IntegerLiteral(c), BooleanLiteral(TRUE))>>) :
            a \in {1, 2, 10}, b \in {1, 2, 10}, c \in {1, 2, 10}}
    \cup {HashLiteral(<<Pair(IntegerLiteral(1), BooleanLiteral(TRUE)),
                        Pair(Identifier("u"), BooleanLiteral(TRUE))>>),
          HashLiteral(<<Pair(IntegerLiteral(1), Identifier("u")),
                        Pair(IntegerLiteral(2), BooleanLiteral(TRUE))>>)}

\* let g = 1; { ... }
HashPrograms ==
    {Program(<<LetStatement("g", IntegerLiteral(1)), ExpressionStatement(h)>>) :
        h \in HashLiterals}

\* let newAdder = fn(x) { fn(y) { x + y } }; let addTwo = newAdder(2); addTwo(3)
AdderProgram ==
    Program(<<LetStatement("newAdder",
                  FunctionLiteral(<<"x">>,
                      BlockStatement(<<ExpressionStatement(
                          FunctionLiteral(<<"y">>,
                              BlockStatement(<<ExpressionStatement(
                                  InfixExpression("+", Identifier("x"),
                                                  Identifier("y")))>>)))>>))),
              LetStatement("addTwo",
                  CallExpression(Identifier("newAdder"), <<IntegerLiteral(2)>>)),
              ExpressionStatement(
                  CallExpression(Identifier("addTwo"), <<IntegerLiteral(3)>>))>>)

\* let g = 1; g(2)
CallProgram ==
    Program(<<LetStatement("g", IntegerLiteral(1)),
              ExpressionStatement(CallExpression(Identifier("g"), <<IntegerLiteral(2)>>))>>)

\* fn() { 1 }
FunctionProgram ==
    Program(<<ExpressionStatement(
                FunctionLiteral(<<>>, BlockStatement(<<ExpressionStatement(IntegerLiteral(1))>>)))>>)

FunctionPrograms == {AdderProgram, CallProgram, FunctionProgram}

Programs ==
    LetChains \cup HashPrograms \cup FunctionPrograms \cup
    {Program(<<>>)}
    \cup {Program(<<ExpressionStatement(e)>>) : e \in Expressions}
    \cup {Program(<<s1, s2>>) : s1 \in Leading, s2 \in Trailing}

\* what a caller of NewWithState hands over: the symbol table and the
\* constants an earlier compilation left (the loop of the REPL), a table
\* with a builtin registered, an enclosed table
EarlierStates ==
    {[symbolTable |-> NewSymbolTable, constants |-> <<>>],
     [symbolTable |-> Define(NewSymbolTable, "g"),
      constants |-> <<Integer(ConstAddr(0), 2)>>],
     [symbolTable |-> Define(Define(NewSymbolTable, "g"), "h"),
      constants |-> <<Integer(ConstAddr(0), 2), String(ConstAddr(1), <<"a">>)>>],
     [symbolTable |-> DefineBuiltin(Define(NewSymbolTable, "g"), 0, "len"),
      constants |-> <<Integer(ConstAddr(0), 2)>>],
     [symbolTable |-> NewEnclosedSymbolTable(Define(NewSymbolTable, "g")),
      constants |-> <<Integer(ConstAddr(0), 2)>>],
     [symbolTable |-> Define(NewEnclosedSymbolTable(Define(NewSymbolTable, "g")), "l"),
      constants |-> <<Integer(ConstAddr(0), 2)>>]}

\* the next line compiled on such a state
LaterPrograms ==
    {Program(<<LetStatement(n, IntegerLiteral(1))>>) : n \in {"g", "k"}}
    \cup {Program(<<ExpressionStatement(Identifier(n))>>) : n \in {"g", "h", "len", "l", "u"}}
    \cup {Program(<<ExpressionStatement(InfixExpression("+", Identifier("g"),
                                                         IntegerLiteral(1)))>>),
          Program(<<ExpressionStatement(StringLiteral(<<"b">>)),
                    ExpressionStatement(IntegerLiteral(1))>>)}

\* the constant pool of the hand-assembled bytecode: an integer, a string,
\* compiled functions (one that calls itself, one that returns, one that
\* returns a value, one whose body ends without a return), the integers
\* at which int64 arithmetic overflows or divides by zero, and two functions
\* that return with a value of their own left on the stack
RawConstants ==
    << Integer(ConstAddr(0), 1),
       String(ConstAddr(1), <<"a">>),
       CompiledFunction(ConstAddr(2), Make(OpConstant, <<2>>) \o Make(OpCall, <<0>>)),
       CompiledFunction(ConstAddr(3), Make(OpReturn, <<>>)),
       CompiledFunction(ConstAddr(4), Make(OpConstant, <<0>>) \o Make(OpReturnValue, <<>>)),
       CompiledFunction(ConstAddr(5), Make(OpTrue, <<>>)),
       Integer(ConstAddr(6), MinInt),
       Integer(ConstAddr(7), -1),
       Integer(ConstAddr(8), 0),
       CompiledFunction(ConstAddr(9), Make(OpTrue, <<>>) \o Make(OpConstant, <<0>>)
                                          \o Make(OpReturnValue, <<>>)),
       CompiledFunction(ConstAddr(10), Make(OpTrue, <<>>) \o Make(OpReturn, <<>>)) >>

\* instructions that push one operand
RawOperands ==
    {Make(OpTrue, <<>>), Make(OpFalse, <<>>), Make(OpNull, <<>>), Make(OpGetGlobal, <<0>>),
     Make(OpArray, <<0>>), Make(OpHash, <<0>>)}
    \cup {Make(OpConstant, <<i>>) : i \in 0 .. Len(RawConstants) - 1}

\* one instruction per case of Run's switch, and bytes that have none
RawInstructions ==
    {Make(op, <<>>) : op \in {OpAdd, OpMultiply, OpDivide, OpSubtract, OpPop, OpTrue,
                               OpFalse, OpEqual, OpNotEqual, OpGreaterThan, OpMinus,
                               OpBang, OpNull, OpIndex, OpReturnValue, OpReturn}}
    \cup {Make(op, <<n>>) : op \in {OpConstant, OpGetGlobal, OpSetGlobal, OpArray, OpHash,
                                    OpCall, OpGetLocal},
                            n \in 0 .. 2}
    \cup {Make(OpJump, <<0>>), Make(OpJumpNotTruthy, <<0>>), <<OpJump>>, <<200>>}

RECURSIVE Repeat(_, _)
Repeat(ins, k) == IF k = 0 THEN <<>> ELSE ins \o Repeat(ins, k - 1)

\* k pushes of true and then one instruction: every case on every stack depth
RawOnDepth ==
    {Repeat(Make(OpTrue, <<>>), k) \o ins : k \in 0 .. StackSize, ins \in RawInstructions}

\* two operands and then one instruction
RawOnOperands ==
    {a \o b \o ins : a \in RawOperands, b \in RawOperands, ins \in RawInstructions}

\* a call and what follows it
RawCalls ==
    {Make(OpConstant, <<i>>) \o Make(OpCall, <<0>>) \o rest :
        i \in {2, 3, 4, 5, 9, 10}, rest \in {<<>>, Make(OpPop, <<>>), Make(OpTrue, <<>>) \o Make(OpPop, <<>>)}}

\* a hash of one or two pairs built from the stack, by itself and indexed
RawHashKeys ==
    {Make(OpConstant, <<0>>), Make(OpConstant, <<1>>), Make(OpTrue, <<>>),
     Make(OpNull, <<>>), Make(OpArray, <<0>>), Make(OpConstant, <<3>>)}

RawHashes ==
    {k \o Make(OpTrue, <<>>) \o Make(OpHash, <<2>>) \o rest :
        k \in RawHashKeys,
        rest \in {<<>>} \cup {i \o Make(OpIndex, <<>>) : i \in RawHashKeys}}
    \cup {Make(OpConstant, <<0>>) \o Make(OpTrue, <<>>) \o k \o Make(OpFalse, <<>>)
            \o Make(OpHash, <<4>>) : k \in RawHashKeys}

RawPrograms == RawOnDepth \cup RawOnOperands \cup RawCalls \cup RawHashes

RawBytecode == {[Instructions |-> ins, Constants |-> RawConstants] : ins \in RawPrograms}

---------------------------------------------------------------------------
(* The state machine: Compile, New, and Run one loop iteration at a time.   *)

VARIABLES
    program,    \* the syntax tree handed to Compile (NoNode for hand-assembled bytecode)
    comp,       \* the Compiler
    bytecode,   \* the Bytecode handed to New
    vm,         \* the VM
    pc,         \* "start", "compile_error", "compiled", "running", "returned", "panicked"
    runErr,     \* the error Run returned (NoErr for nil), or the panic it raised
    heap,       \* the number of objects the VM has allocated
    last,       \* history: the opcode of the last iteration, the VM before it, and
                \* the error the iteration's case got from the function it called
    codec,      \* a use of the code package on its own: Make and ReadOperands on
                \* an opcode and operands, or Instructions.String on bytes
    symtab,     \* a use of the symbol table on its own: the tables and the
                \* calls made on them
    pair,       \* two VMs created from one Bytecode, run in any interleaving
    lines       \* the number of lines the REPL has read (0 outside the REPL)

vars == <<program, comp, bytecode, vm, pc, runErr, heap, last, codec, symtab, pair, lines>>

\* allocations per run explored by the model
MaxHeap == 6

NoBytecode == [Instructions |-> <<>>, Constants |-> <<>>]

NoVM == New(NoBytecode)

NoLast == [op |-> -1, vm |-> NoVM, failed |-> NoErr]

\* the code package and the symbol table are not in use
NoCodec == [call |-> "none", phase |-> "unused"]

NoSymtab == [phase |-> "unused"]

NoPair == [phase |-> "unused"]

Init ==
    /\ vm = NoVM
    /\ runErr = NoErr
    /\ heap = 0
    /\ last = NoLast
    /\ codec = NoCodec
    /\ symtab = NoSymtab
    /\ pair = NoPair
    /\ lines = 0
    /\ \/ /\ program \in Programs
          /\ comp = NewCompiler
          /\ bytecode = NoBytecode
          /\ pc = "start"
       \/ /\ program \in LaterPrograms
          /\ comp \in {NewWithState(e.symbolTable, e.constants) : e \in EarlierStates}
          /\ bytecode = NoBytecode
          /\ pc = "start"
       \/ /\ program = NoNode
          /\ comp = NewCompiler
          /\ bytecode \in RawBytecode
          /\ pc = "compiled"

\* comp := compiler.New(); err := comp.Compile(program)
DoCompile ==
    /\ pc = "start"
    /\ comp' = Compile(comp, program)
    /\ bytecode' = IF comp'.err = NoErr THEN Bytecode(comp') ELSE bytecode
    /\ pc' = IF comp'.err = NoErr THEN "compiled" ELSE "compile_error"
    /\ UNCHANGED <<program, vm, runErr, heap, last, codec, symtab, pair, lines>>

\* vm := New(comp.Bytecode())
DoNew ==
    /\ pc = "compiled"
    /\ vm' = New(bytecode)
    /\ pc' = "running"
    /\ UNCHANGED <<program, comp, bytecode, runErr, heap, last, codec, symtab, pair, lines>>

\* the loop condition of Run can be evaluated: there is a current frame
HasFrame == vm.framesIndex - 1 >= 0

LoopContinues == Ip(vm) < Len(Ins(vm)) - 1

\* the VM after vm.currentFrame().ip++, and the opcode fetched
Fetched == advanceIp(vm, 1)

CurrentOp == At(Ins(Fetched), Ip(Fetched))

Iterates(ops) ==
    /\ pc = "running"
    /\ HasFrame
    /\ LoopContinues
    /\ CurrentOp \in ops

\* what an iteration leaves
Leaves(r) ==
    /\ vm' = r.vm
    /\ last' = [op |-> CurrentOp, vm |-> vm, failed |-> r.failed]
    /\ pc' = CASE r.ret = "continue" -> "running"
               [] r.ret = "return" -> "returned"
               [] r.ret = "panic" -> "panicked"
    /\ runErr' = r.err
    /\ UNCHANGED <<program, comp, bytecode, codec, symtab, pair, lines>>

Allocates == heap < MaxHeap /\ heap' = heap + 1

StepConstant == Iterates({OpConstant}) /\ Leaves(RunConstant(Fetched)) /\ UNCHANGED heap

StepPop == Iterates({OpPop}) /\ Leaves(RunPop(Fetched)) /\ UNCHANGED heap

StepBinary ==
    /\ Iterates({OpAdd, OpDivide, OpMultiply, OpSubtract})
    /\ Allocates
    /\ Leaves(RunBinary(Fetched, CurrentOp, HeapAddr(heap)))

StepComparison ==
    /\ Iterates({OpEqual, OpGreaterThan, OpNotEqual})
    /\ Leaves(RunComparison(Fetched, CurrentOp))
    /\ UNCHANGED heap

StepTrue == Iterates({OpTrue}) /\ Leaves(RunTrue(Fetched)) /\ UNCHANGED heap

StepFalse == Iterates({OpFalse}) /\ Leaves(RunFalse(Fetched)) /\ UNCHANGED heap

StepBang == Iterates({OpBang}) /\ Leaves(RunBang(Fetched)) /\ UNCHANGED heap

StepMinus == Iterates({OpMinus}) /\ Allocates /\ Leaves(RunMinus(Fetched, HeapAddr(heap)))

StepJump == Iterates({OpJump}) /\ Leaves(RunJump(Fetched)) /\ UNCHANGED heap

StepJumpNotTruthy ==
    Iterates({OpJumpNotTruthy}) /\ Leaves(RunJumpNotTruthy(Fetched)) /\ UNCHANGED heap

StepNull == Iterates({OpNull}) /\ Leaves(RunNull(Fetched)) /\ UNCHANGED heap

StepSetGlobal == Iterates({OpSetGlobal}) /\ Leaves(RunSetGlobal(Fetched)) /\ UNCHANGED heap

StepGetGlobal == Iterates({OpGetGlobal}) /\ Leaves(RunGetGlobal(Fetched)) /\ UNCHANGED heap

StepArray == Iterates({OpArray}) /\ Allocates /\ Leaves(RunArray(Fetched, HeapAddr(heap)))

StepHash == Iterates({OpHash}) /\ Allocates /\ Leaves(RunHash(Fetched, HeapAddr(heap)))

StepIndex == Iterates({OpIndex}) /\ Leaves(RunIndex(Fetched)) /\ UNCHANGED heap

StepCall == Iterates({OpCall}) /\ Leaves(RunCall(Fetched)) /\ UNCHANGED heap

StepReturnValue == Iterates({OpReturnValue}) /\ Leaves(RunReturnValue(Fetched)) /\ UNCHANGED heap

StepReturn == Iterates({OpReturn}) /\ Leaves(RunReturn(Fetched)) /\ UNCHANGED heap

\* the opcodes Run's switch has a case for
HandledOpcodes ==
    {OpConstant, OpPop, OpAdd, OpDivide, OpMultiply, OpSubtract, OpEqual, OpGreaterThan,
     OpNotEqual, OpTrue, OpFalse, OpBang, OpMinus, OpJump, OpJumpNotTruthy, OpNull,
     OpSetGlobal, OpGetGlobal, OpArray, OpHash, OpIndex, OpCall, OpReturnValue, OpReturn}

\* a byte without a case: the switch does nothing and the loop goes on
StepNoCase ==
    /\ Iterates((0 .. 255) \ HandledOpcodes)
    /\ Leaves(Continue(Fetched))
    /\ UNCHANGED heap

\* the loop condition is false: Run returns nil
RunReturnsNil ==
    /\ pc = "running"
    /\ HasFrame
    /\ ~LoopContinues
    /\ pc' = "returned"
    /\ runErr' = NoErr
    /\ UNCHANGED <<program, comp, bytecode, vm, heap, last, codec, symtab, pair, lines>>

\* the loop condition reads vm.frames[vm.framesIndex-1] with framesIndex = 0
LoopConditionPanics ==
    /\ pc = "running"
    /\ ~HasFrame
    /\ pc' = "panicked"
    /\ runErr' = PanicIndex
    /\ UNCHANGED <<program, comp, bytecode, vm, heap, last, codec, symtab, pair, lines>>

Next ==
    \/ DoCompile
    \/ DoNew
    \/ StepConstant
    \/ StepPop
    \/ StepBinary
    \/ StepComparison
    \/ StepTrue
    \/ StepFalse
    \/ StepBang
    \/ StepMinus
    \/ StepJump
    \/ StepJumpNotTruthy
    \/ StepNull
    \/ StepSetGlobal
    \/ StepGetGlobal
    \/ StepArray
    \/ StepHash
    \/ StepIndex
    \/ StepCall
    \/ StepReturnValue
    \/ StepReturn
    \/ StepNoCase
    \/ RunReturnsNil
    \/ LoopConditionPanics

Spec == Init /\ [][Next]_vars

---------------------------------------------------------------------------
(* The symbol table driven on its own: a global table, a table enclosed in *)
(* it and a table enclosed in that one, with Define, DefineBuiltin and     *)
(* Resolve called on them in any order.  A table is held without its Outer *)
(* pointer; TableOf follows the pointers.                                  *)

SymbolNames == {"a", "b"}

BuiltinIndexes == {0}

TableNames == {"global", "outer", "inner"}

\* the Define calls a table takes in the model
MaxDefines == 2

\* a non-nil Outer pointer, as held
SomeTable == [none |-> FALSE]

Held(s) == [s EXCEPT !.Outer = IF s.Outer = NoTable THEN NoTable ELSE SomeTable]

TableOf(st, which) ==
    CASE which = "global" -> st.global
      [] which = "outer" -> [st.outer EXCEPT !.Outer = st.global]
      [] OTHER -> [st.inner EXCEPT !.Outer = [st.outer EXCEPT !.Outer = st.global]]

NoRet == [op |-> "none", on |-> "global", name |-> "", symbol |-> NoSymbol, ok |-> FALSE]

Returned(op, which, name, symbol, ok) ==
    [op |-> op, on |-> which, name |-> name, symbol |-> symbol, ok |-> ok]

InitSym ==
    /\ program = NoNode
    /\ comp = NewCompiler
    /\ bytecode = NoBytecode
    /\ vm = NoVM
    /\ pc = "idle"
    /\ runErr = NoErr
    /\ heap = 0
    /\ last = NoLast
    /\ codec = NoCodec
    /\ pair = NoPair
    /\ lines = 0
    /\ symtab = [phase |-> "open",
                 global |-> NewSymbolTable,
                 outer |-> Held(NewEnclosedSymbolTable(NewSymbolTable)),
                 inner |-> Held(NewEnclosedSymbolTable(
                                    NewEnclosedSymbolTable(NewSymbolTable))),
                 defines |-> [t \in TableNames |-> 0],
                 ret |-> NoRet]

NotSymtab == <<program, comp, bytecode, vm, pc, runErr, heap, last, codec, pair, lines>>

\* symbol := s.Define(name)
DoDefine(which, name) ==
    /\ symtab.phase = "open"
    /\ symtab.defines[which] < MaxDefines
    /\ LET s == TableOf(symtab, which)
       IN  symtab' = [symtab EXCEPT
                         ![which] = Held(Define(s, name)),
                         !.defines[which] = @ + 1,
                         !.ret = Returned("Define", which, name,
                                          DefineSymbol(s, name), TRUE)]
    /\ UNCHANGED NotSymtab

\* symbol := s.DefineBuiltin(index, name)
DoDefineBuiltin(which, index, name) ==
    /\ symtab.phase = "open"
    /\ LET s == TableOf(symtab, which)
       IN  symtab' = [symtab EXCEPT
                         ![which] = Held(DefineBuiltin(s, index, name)),
                         !.ret = Returned("DefineBuiltin", which, name,
                                          DefineBuiltinSymbol(index, name), TRUE)]
    /\ UNCHANGED NotSymtab

\* symbol, ok := s.Resolve(name)
DoResolve(which, name) ==
    /\ symtab.phase = "open"
    /\ LET r == Resolve(TableOf(symtab, which), name)
       IN  symtab' = [symtab EXCEPT
                         !.ret = Returned("Resolve", which, name, r.symbol, r.ok)]
    /\ UNCHANGED NotSymtab

NextSym ==
    \/ \E which \in TableNames, name \in SymbolNames : DoDefine(which, name)
    \/ \E which \in TableNames, index \in BuiltinIndexes, name \in SymbolNames :
          DoDefineBuiltin(which, index, name)
    \/ \E which \in TableNames, name \in SymbolNames : DoResolve(which, name)

SpecSym == InitSym /\ [][NextSym]_vars

---------------------------------------------------------------------------
(* internal/code driven on its own: Make followed by Lookup and            *)
(* ReadOperands on the bytes after the opcode, and Instructions.String     *)
(* over a byte sequence.                                                   *)

\* the two opcodes the instruction set names after OpGetBuiltin
OpClosure == 27

OpGetFree == 28

\* the closed instruction set
SpecOpcodes == OpConstant .. OpGetFree

\* the operand widths the instruction encoding table gives each opcode
SpecWidths(op) ==
    CASE op = OpClosure -> <<2, 1>>
      [] op = OpGetFree -> <<1>>
      [] OTHER -> OperandWidths(op)

\* the longest byte sequence handed to Instructions.String
MaxBytes == 3

\* the lines after which the model stops following a String call
MaxLines == MaxBytes + 2

OperandValues(width) ==
    IF width = 2 THEN {0, 1, 255, 256, 65534, 65535} ELSE {0, 1, 254, 255}

\* every operand list that fits the widths
OperandChoices(widths) ==
    CASE Len(widths) = 0 -> {<<>>}
      [] Len(widths) = 1 -> {<<o>> : o \in OperandValues(widths[1])}
      [] OTHER -> {<<o, f>> : o \in OperandValues(widths[1]),
                              f \in OperandValues(widths[2])}

ByteChoices == {OpConstant, OpAdd, OpCall, 200}

RECURSIVE BytesUpTo(_)
BytesUpTo(n) ==
    IF n = 0 THEN {<<>>}
    ELSE LET shorter == BytesUpTo(n - 1)
         IN  shorter \cup {Append(s, b) : s \in shorter, b \in ByteChoices}

ByteSequences == BytesUpTo(MaxBytes)

MakeCall(op, operands) ==
    [call |-> "Make", phase |-> "make", op |-> op, operands |-> operands, instruction |-> <<>>,
     read |-> <<>>, offset |-> 0, ins |-> <<>>, i |-> 0, out |-> <<>>]

StringCall(ins) ==
    [call |-> "String", phase |-> "string", op |-> 0, operands |-> <<>>, instruction |-> <<>>,
     read |-> <<>>, offset |-> 0, ins |-> ins, i |-> 0, out |-> <<>>]

InitCode ==
    /\ program = NoNode
    /\ comp = NewCompiler
    /\ bytecode = NoBytecode
    /\ vm = NoVM
    /\ pc = "idle"
    /\ runErr = NoErr
    /\ heap = 0
    /\ last = NoLast
    /\ symtab = NoSymtab
    /\ pair = NoPair
    /\ lines = 0
    /\ \/ \E op \in SpecOpcodes : \E operands \in OperandChoices(SpecWidths(op)) :
             codec = MakeCall(op, operands)
       \/ \E ins \in ByteSequences : codec = StringCall(ins)

NotCodec == <<program, comp, bytecode, vm, pc, runErr, heap, last, symtab, pair, lines>>

\* instruction := Make(op, operands...)
DoMake ==
    /\ codec.phase = "make"
    /\ codec' = [codec EXCEPT !.phase = "made",
                              !.instruction = Make(codec.op, codec.operands)]
    /\ UNCHANGED NotCodec

\* def, err := Lookup(byte(op))
DoLookup ==
    /\ codec.phase = "made"
    /\ codec' = [codec EXCEPT !.phase = IF LookupFails(codec.op)
                                        THEN "undefined" ELSE "looked_up"]
    /\ UNCHANGED NotCodec

\* operandsRead, n := ReadOperands(def, instruction[1:])
DoReadOperands ==
    /\ codec.phase = "looked_up"
    /\ IF Len(codec.instruction) < 1
       THEN codec' = [codec EXCEPT !.phase = "panicked"]
       ELSE LET r == ReadOperands(OperandWidths(codec.op),
                                  SliceFrom(codec.instruction, 1))
            IN  codec' = IF r.panic
                         THEN [codec EXCEPT !.phase = "panicked"]
                         ELSE [codec EXCEPT !.phase = "read",
                                            !.read = r.operands,
                                            !.offset = r.offset]
    /\ UNCHANGED NotCodec

\* one line of Instructions.String
Line(pos, op, operands) ==
    [error |-> FALSE, pos |-> pos, op |-> op, operands |-> operands]

ErrorLine(op) == [error |-> TRUE, pos |-> -1, op |-> op, operands |-> <<>>]

\* one iteration of the loop of Instructions.String: on a Lookup error the
\* ERROR line is written and the loop continues with i as it was
StringStep ==
    /\ codec.phase = "string"
    /\ codec.i < Len(codec.ins)
    /\ Len(codec.out) < MaxLines
    /\ LET op == At(codec.ins, codec.i)
           r == ReadOperands(OperandWidths(op), SliceFrom(codec.ins, codec.i + 1))
       IN  codec' =
               IF LookupFails(op)
               THEN [codec EXCEPT !.out = Append(@, ErrorLine(op))]
               ELSE IF r.panic
               THEN [codec EXCEPT !.phase = "panicked"]
               ELSE [codec EXCEPT !.out = Append(@, Line(codec.i, op, r.operands)),
                                  !.i = codec.i + 1 + r.offset]
    /\ UNCHANGED NotCodec

\* the loop condition i < len(ins) fails: return out.String()
StringReturns ==
    /\ codec.phase = "string"
    /\ codec.i >= Len(codec.ins)
    /\ codec' = [codec EXCEPT !.phase = "returned"]
    /\ UNCHANGED NotCodec

NextCode ==
    \/ DoMake
    \/ DoLookup
    \/ DoReadOperands
    \/ StringStep
    \/ StringReturns

\* a call that can take a step takes it
SpecCode == InitCode /\ [][NextCode]_vars /\ WF_vars(NextCode)

---------------------------------------------------------------------------
(* Two VMs created from the same Bytecode, each with its own stack,        *)
(* globals and frames.  vm.constants is the slice of the Bytecode: what a  *)
(* VM does to its constants it does to the shared ones.                    *)

\* the cases of Run's switch that allocate an object
AllocatingOpcodes == {OpAdd, OpDivide, OpMultiply, OpSubtract, OpMinus, OpArray, OpHash}

\* one iteration of Run's loop on the VM v: vm.currentFrame().ip++, the
\* fetch, and the case of the switch; h is the address of the object the
\* case allocates
Iteration(v, h) ==
    LET f == advanceIp(v, 1)
        op == At(Ins(f), Ip(f))
    IN  CASE op = OpConstant -> RunConstant(f)
          [] op = OpPop -> RunPop(f)
          [] op \in {OpAdd, OpDivide, OpMultiply, OpSubtract} -> RunBinary(f, op, h)
          [] op \in {OpEqual, OpGreaterThan, OpNotEqual} -> RunComparison(f, op)
          [] op = OpTrue -> RunTrue(f)
          [] op = OpFalse -> RunFalse(f)
          [] op = OpBang -> RunBang(f)
          [] op = OpMinus -> RunMinus(f, h)
          [] op = OpJump -> RunJump(f)
          [] op = OpJumpNotTruthy -> RunJumpNotTruthy(f)
          [] op = OpNull -> RunNull(f)
          [] op = OpSetGlobal -> RunSetGlobal(f)
          [] op = OpGetGlobal -> RunGetGlobal(f)
          [] op = OpArray -> RunArray(f, h)
          [] op = OpHash -> RunHash(f, h)
          [] op = OpIndex -> RunIndex(f)
          [] op = OpCall -> RunCall(f)
          [] op = OpReturnValue -> RunReturnValue(f)
          [] op = OpReturn -> RunReturn(f)
          [] OTHER -> Continue(f)

\* a VM, where Run is, the error or panic it ended with, and the number of
\* objects it has allocated
Machine(v, at, e, n) == [vm |-> v, pc |-> at, runErr |-> e, heap |-> n]

\* vm := New(bytecode); Run is entered
Started(b) == Machine(New(b), "running", NoErr, 0)

\* the loop condition of Run and one iteration
RunOne(m) ==
    IF m.pc # "running" THEN m
    ELSE IF m.vm.framesIndex - 1 < 0 THEN Machine(m.vm, "panicked", PanicIndex, m.heap)
    ELSE IF ~(Ip(m.vm) < Len(Ins(m.vm)) - 1) THEN Machine(m.vm, "returned", NoErr, m.heap)
    ELSE LET r == Iteration(m.vm, HeapAddr(m.heap))
             f == advanceIp(m.vm, 1)
         IN  Machine(r.vm,
                     CASE r.ret = "continue" -> "running"
                       [] r.ret = "return" -> "returned"
                       [] r.ret = "panic" -> "panicked",
                     r.err,
                     IF At(Ins(f), Ip(f)) \in AllocatingOpcodes THEN m.heap + 1 ELSE m.heap)

\* the bytecode two VMs are created from: calls, and compiled programs that
\* read constants, write and read globals, and build arrays
PairPrograms ==
    LetChains
    \cup {Program(<<ExpressionStatement(e)>>) : e \in Collections}
    \cup {Program(<<ExpressionStatement(
                        InfixExpression("+", IntegerLiteral(1), IntegerLiteral(2)))>>),
          Program(<<LetStatement("x", InfixExpression("+", IntegerLiteral(1),
                                                      IntegerLiteral(2))),
                    ExpressionStatement(InfixExpression("+", Identifier("x"),
                                                        IntegerLiteral(1)))>>),
          Program(<<LetStatement("x", BooleanLiteral(TRUE)),
                    ExpressionStatement(IfExpression(Identifier("x"),
                        BlockStatement(<<ExpressionStatement(IntegerLiteral(1))>>),
                        NoNode))>>)}

PairBytecode ==
    {[Instructions |-> ins, Constants |-> RawConstants] : ins \in RawCalls}
    \cup {Bytecode(Compile(NewCompiler, p)) : p \in PairPrograms}

VMs == 1 .. 2

InitPair ==
    /\ program = NoNode
    /\ comp = NewCompiler
    /\ bytecode = NoBytecode
    /\ vm = NoVM
    /\ pc = "idle"
    /\ runErr = NoErr
    /\ heap = 0
    /\ last = NoLast
    /\ codec = NoCodec
    /\ symtab = NoSymtab
    /\ lines = 0
    /\ \E b \in PairBytecode :
          pair = [phase |-> "open",
                  given |-> b,
                  shared |-> b,
                  of |-> [i \in VMs |-> Started(b)],
                  steps |-> [i \in VMs |-> 0]]

NotPair == <<program, comp, bytecode, vm, pc, runErr, heap, last, codec, symtab, lines>>

\* the VM i goes through the loop condition of its Run and one iteration,
\* reading the constants of the shared bytecode
StepOf(i) ==
    /\ pair.phase = "open"
    /\ pair.of[i].pc = "running"
    /\ LET me == pair.of[i]
           m == RunOne([me EXCEPT !.vm.constants = pair.shared.Constants])
       IN  pair' = [pair EXCEPT !.shared.Constants = m.vm.constants,
                                !.of[i] = m,
                                !.steps[i] = @ + 1]
    /\ UNCHANGED NotPair

NextPair == \E i \in VMs : StepOf(i)

SpecPair == InitPair /\ [][NextPair]_vars

---------------------------------------------------------------------------
(* repl.Start with the compiler: the lines of a session share one symbol    *)
(* table, one constant pool and one globals store.  Between two lines the   *)
(* symbol table is the one comp points to, the constants are those of the   *)
(* last Bytecode (a line that fails to compile leaves them alone) and the   *)
(* globals are those of the last VM.                                        *)

\* the number of lines of a session
MaxReplLines == 3

\* NewWithGlobalsStore(bytecode, s)
NewWithGlobalsStore(b, s) == [New(b) EXCEPT !.globals = s]

\* the lines typed: lets that compile and run, a let whose value fails at
\* run time, a line that fails to compile after its first let, and uses of
\* the names
ReplLines ==
    {Program(<<LetStatement("x", IntegerLiteral(1))>>),
     Program(<<LetStatement("x", InfixExpression("+", IntegerLiteral(1),
                                                 BooleanLiteral(TRUE)))>>),
     Program(<<LetStatement("a", IntegerLiteral(2)),
               LetStatement("b", Identifier("u"))>>),
     Program(<<ExpressionStatement(Identifier("x"))>>),
     Program(<<ExpressionStatement(Identifier("a"))>>),
     Program(<<ExpressionStatement(InfixExpression("+", Identifier("x"),
                                                   IntegerLiteral(1)))>>)}

InitRepl ==
    /\ program \in ReplLines
    /\ comp = NewWithState(NewSymbolTable, <<>>)
    /\ bytecode = NoBytecode
    /\ vm = NoVM
    /\ pc = "start"
    /\ runErr = NoErr
    /\ heap = 0
    /\ last = NoLast
    /\ codec = NoCodec
    /\ symtab = NoSymtab
    /\ pair = NoPair
    /\ lines = 1

\* machine := vm.NewWithGlobalsStore(code, globals)
ReplNew ==
    /\ lines > 0
    /\ pc = "compiled"
    /\ vm' = NewWithGlobalsStore(bytecode, vm.globals)
    /\ pc' = "running"
    /\ UNCHANGED <<program, comp, bytecode, runErr, heap, last, codec, symtab, pair, lines>>

\* machine.Run(): the loop condition and one iteration
ReplRun ==
    /\ lines > 0
    /\ pc = "running"
    /\ LET m == RunOne(Machine(vm, pc, runErr, heap))
       IN  /\ vm' = m.vm
           /\ pc' = m.pc
           /\ runErr' = m.runErr
           /\ heap' = m.heap
    /\ last' = IF HasFrame /\ LoopContinues
               THEN [op |-> CurrentOp, vm |-> vm,
                     failed |-> Iteration(vm, HeapAddr(heap)).failed]
               ELSE last
    /\ UNCHANGED <<program, comp, bytecode, codec, symtab, pair, lines>>

\* the loop of Start comes round: after a compilation that failed, after a
\* Run that returned an error, or after a Run that returned nil and whose
\* last popped element could be printed (Inspect on a nil element panics)
ReplNextLine ==
    /\ lines > 0
    /\ lines < MaxReplLines
    /\ \/ pc = "compile_error"
       \/ pc = "returned" /\ runErr # NoErr
       \/ pc = "returned" /\ runErr = NoErr /\ LastPoppedStackElem(vm) # nil
    /\ program' \in ReplLines
    /\ comp' = NewWithState(comp.symbolTable, bytecode.Constants)
    /\ pc' = "start"
    /\ runErr' = NoErr
    /\ last' = NoLast
    /\ lines' = lines + 1
    /\ UNCHANGED <<bytecode, vm, heap, codec, symtab, pair>>

NextRepl ==
    \/ DoCompile
    \/ ReplNew
    \/ ReplRun
    \/ ReplNextLine

SpecRepl == InitRepl /\ [][NextRepl]_vars

---------------------------------------------------------------------------
(* The reference semantics the claims are stated against: the value of an   *)
(* expression of integers, booleans and strings, by structural recursion.   *)

RefInt(n) == [t |-> "int", n |-> n]

RefBool(b) == [t |-> "bool", b |-> b]

RefStr(str) == [t |-> "str", s |-> str]

\* no value: a type error, a division by zero, or an expression outside the
\* fragment
RefNone == [t |-> "none"]

Abs(n) == IF n < 0 THEN -n ELSE n

\* the quotient truncated toward zero: a = q * b + r with |r| < |b| and r
\* zero or of the sign of a
RefQuot(a, b) ==
    CHOOSE q \in -Abs(a) .. Abs(a) :
        LET r == a - q * b
        IN  Abs(r) < Abs(b) /\ (r = 0 \/ (r < 0) = (a < 0))

\* left operator right in int64
RefArith(operator, a, b) ==
    CASE operator = "+" -> WrapInt(a + b)
      [] operator = "-" -> WrapInt(a - b)
      [] operator = "*" -> WrapInt(a * b)
      [] operator = "/" -> WrapInt(RefQuot(a, b))

RefInfix(operator, l, r) ==
    IF l.t = "int" /\ r.t = "int"
    THEN CASE operator \in {"+", "-", "*"} -> RefInt(RefArith(operator, l.n, r.n))
           [] operator = "/" -> IF r.n = 0 THEN RefNone ELSE RefInt(RefArith("/", l.n, r.n))
           [] operator = "<" -> RefBool(l.n < r.n)
           [] operator = ">" -> RefBool(l.n > r.n)
           [] operator = "==" -> RefBool(l.n = r.n)
           [] operator = "!=" -> RefBool(l.n # r.n)
           [] OTHER -> RefNone
    ELSE IF l.t = "bool" /\ r.t = "bool"
    THEN CASE operator = "==" -> RefBool(l.b = r.b)
           [] operator = "!=" -> RefBool(l.b # r.b)
           [] OTHER -> RefNone
    ELSE IF l.t = "str" /\ r.t = "str" /\ operator = "+"
    THEN RefStr(l.s \o r.s)
    ELSE RefNone

RefPrefix(operator, r) ==
    CASE r.t = "none" -> RefNone
      [] operator = "-" -> IF r.t = "int" THEN RefInt(WrapInt(-r.n)) ELSE RefNone
      [] operator = "!" -> IF r.t = "bool" THEN RefBool(~r.b) ELSE RefBool(FALSE)
      [] OTHER -> RefNone

RefNull == [t |-> "null"]

\* the truthiness of a value
RefValueTruthy(r) ==
    CASE r.t = "bool" -> r.b
      [] r.t = "null" -> FALSE
      [] OTHER -> TRUE

\* the value of an if expression: the value of the last expression statement
\* of the branch taken, Null when the condition is non-truthy and there is no
\* alternative, nothing when the branch does not end in an expression
RECURSIVE RefEval(_)
RefBlock(b) ==
    IF Len(b.Statements) > 0 /\ b.Statements[Len(b.Statements)].kind = "ExpressionStatement"
    THEN RefEval(b.Statements[Len(b.Statements)].Expression)
    ELSE RefNone

RefIf(e) ==
    LET c == RefEval(e.Condition)
    IN  IF c.t = "none" THEN RefNone
        ELSE IF RefValueTruthy(c) THEN RefBlock(e.Consequence)
        ELSE IF e.Alternative = NoNode THEN RefNull
        ELSE RefBlock(e.Alternative)

RefEval(e) ==
    CASE e.kind = "IntegerLiteral" -> RefInt(e.Value)
      [] e.kind = "IfExpression" -> RefIf(e)
      [] e.kind = "Boolean" -> RefBool(e.BoolValue)
      [] e.kind = "StringLiteral" -> RefStr(e.StrValue)
      [] e.kind = "InfixExpression" -> RefInfix(e.Operator, RefEval(e.Left), RefEval(e.Right))
      [] e.kind = "PrefixExpression" -> RefPrefix(e.Operator, RefEval(e.Right))
      [] OTHER -> RefNone

\* the object is the value
Denotes(obj, ref) ==
    CASE ref.t = "int" -> obj.type = INTEGER_OBJ /\ obj.Value = ref.n
      [] ref.t = "bool" -> obj = (IF ref.b THEN True ELSE False)
      [] ref.t = "str" -> obj.type = STRING_OBJ /\ obj.StrValue = ref.s
      [] ref.t = "null" -> obj = Null
      [] OTHER -> FALSE

LastStatement(p) == p.Statements[Len(p.Statements)]

\* a program whose last statement is an expression statement
EndsInExpression(p) ==
    /\ p.kind = "Program"
    /\ Len(p.Statements) > 0
    /\ LastStatement(p).kind = "ExpressionStatement"

\* the operands the last iteration found on the stack: the first pushed is
\* the left one
LeftOperand == last.vm.stack[last.vm.sp - 2]

RightOperand == last.vm.stack[last.vm.sp - 1]

HadOperands(n) == last.op # -1 /\ last.vm.sp >= n

BothIntegers == LeftOperand.type = INTEGER_OBJ /\ RightOperand.type = INTEGER_OBJ

BothStrings == LeftOperand.type = STRING_OBJ /\ RightOperand.type = STRING_OBJ

\* the iteration went through: the loop goes on, or it ended with nil after it
WentThrough == pc \in {"running", "returned"} /\ runErr = NoErr

\* the iteration popped its two operands and pushed one object
Top == vm.stack[vm.sp - 1]

PushedOneForTwo == vm.sp = last.vm.sp - 1

ArithOpcodes == {OpAdd, OpSubtract, OpMultiply, OpDivide}

RefOperator(op) ==
    CASE op = OpAdd -> "+"
      [] op = OpSubtract -> "-"
      [] op = OpMultiply -> "*"
      [] op = OpDivide -> "/"

---------------------------------------------------------------------------
(* The claims.                                                              *)

LastExpression == LastStatement(program).Expression

\* C1: when Compile accepts a program that ends in an expression statement
\* and Run returns nil, sp is 0 and LastPoppedStackElem() is the value of that
\* last expression.  Stated for the last expressions that have a reference
\* value.
C1_RunLeavesLastExpression ==
    (/\ pc = "returned"
     /\ runErr = NoErr
     /\ EndsInExpression(program)
     /\ RefEval(LastExpression).t # "none")
    => (/\ vm.sp = 0
        /\ Denotes(LastPoppedStackElem(vm), RefEval(LastExpression)))

\* the programs that are one if expression
IfPrograms == {Program(<<ExpressionStatement(e)>>) : e \in Ifs}

\* C2: sp stays within 0 .. StackSize, and no iteration of Run reads the
\* stack below index 0 (pop is never executed with sp = 0).  The second half
\* is stated for the compiled if expressions.
C2_StackPointerInBounds ==
    /\ vm.sp \in 0 .. StackSize
    /\ program \in IfPrograms => ~(pc = "panicked" /\ runErr = PanicStackIndex)

\* the opcodes the claim lists as pushing
PushingOpcodes ==
    {OpConstant, OpTrue, OpFalse, OpNull, OpGetGlobal, OpArray, OpHash, OpIndex,
     OpAdd, OpSubtract, OpMultiply, OpDivide, OpMinus, OpReturn, OpReturnValue}

\* C3: when the push of one of the pushing opcodes fails with "stack overflow"
\* (sp = StackSize), Run returns that error and neither sp nor the stack has
\* changed.
C3_StackOverflowIsReturned ==
    (last.op \in PushingOpcodes /\ last.failed = ErrStackOverflow)
    => (/\ pc = "returned"
        /\ runErr = ErrStackOverflow
        /\ vm.sp = StackSize
        /\ vm.sp = last.vm.sp
        /\ vm.stack = last.vm.stack)

\* OpConstant on a full stack has returned "stack overflow"
C3_Witness ==
    /\ last.op = OpConstant
    /\ last.vm.sp = StackSize
    /\ last.failed = ErrStackOverflow
    /\ pc = "returned"

\* the last iteration executed OpCall on a compiled function with MaxFrames
\* frames in use
CalledWithFramesFull ==
    /\ last.op = OpCall
    /\ last.vm.framesIndex = MaxFrames
    /\ last.vm.sp >= 1
    /\ RightOperand.type = COMPILED_FUNCTION_OBJ

\* C4: framesIndex never exceeds MaxFrames, and OpCall executed with
\* MaxFrames frames in use makes Run return an error.
C4_FrameOverflowIsError ==
    /\ vm.framesIndex <= MaxFrames
    /\ CalledWithFramesFull => (pc = "returned" /\ runErr # NoErr)

\* C5: OpGreaterThan executed on two objects that are not both Integers makes
\* Run return a non-nil error.
C5_GreaterThanTypeError ==
    (/\ last.op = OpGreaterThan
     /\ HadOperands(2)
     /\ LeftOperand # nil
     /\ RightOperand # nil
     /\ ~BothIntegers)
    => (pc = "returned" /\ runErr # NoErr)

\* C6: OpDivide executed on two Integers with a zero divisor makes Run return
\* a non-nil error.
C6_DivisionByZeroIsError ==
    (/\ last.op = OpDivide
     /\ HadOperands(2)
     /\ BothIntegers
     /\ RightOperand.Value = 0)
    => (pc = "returned" /\ runErr # NoErr)

\* the programs that are one arithmetic expression over integer literals
ArithPrograms ==
    {Program(<<ExpressionStatement(e)>>) :
        e \in ArithTrees \cup {InfixExpression(op, a, b) :
                                  op \in ArithOperators, a \in IntAtoms, b \in IntAtoms}}

C8_ArithmeticTypeErrors ==
    /\ (/\ last.op \in ArithOpcodes
        /\ HadOperands(2)
        /\ LeftOperand # nil
        /\ RightOperand # nil
        /\ ~BothIntegers)
       => IF last.op = OpAdd /\ BothStrings
          THEN /\ WentThrough
               /\ PushedOneForTwo
               /\ Top.type = STRING_OBJ
               /\ Top.StrValue = LeftOperand.StrValue \o RightOperand.StrValue
          ELSE pc = "returned" /\ runErr # NoErr
    /\ (/\ last.op = OpMinus
        /\ HadOperands(1)
        /\ RightOperand # nil
        /\ RightOperand.type # INTEGER_OBJ)
       => (pc = "returned" /\ runErr # NoErr)

\* a compiled program has subtracted two Strings and Run has returned the
\* error of the string operation
C8_Witness ==
    /\ program # NoNode
    /\ last.op = OpSubtract
    /\ HadOperands(2)
    /\ BothStrings
    /\ pc = "returned"
    /\ runErr = ErrUnknownStringOperator

\* equality as the claim defines it: by value on two Integers, by identity
\* on every other pair
RefEqual(l, r) ==
    IF l.type = INTEGER_OBJ /\ r.type = INTEGER_OBJ
    THEN l.Value = r.Value
    ELSE l.addr = r.addr

\* C9: OpEqual on two objects pushes True exactly when they are equal (by
\* value for two Integers, by identity otherwise), and OpNotEqual pushes the
\* negation of that.
C9_Equality ==
    (/\ last.op \in {OpEqual, OpNotEqual}
     /\ HadOperands(2)
     /\ LeftOperand # nil
     /\ RightOperand # nil)
    => (/\ WentThrough
        /\ PushedOneForTwo
        /\ Top = IF (last.op = OpEqual) = RefEqual(LeftOperand, RightOperand)
                 THEN True ELSE False)

\* OpEqual has compared two distinct Integer objects of the same value and
\* pushed True
C9_Witness ==
    /\ last.op = OpEqual
    /\ HadOperands(2)
    /\ BothIntegers
    /\ LeftOperand.addr # RightOperand.addr
    /\ LeftOperand.Value = RightOperand.Value
    /\ WentThrough
    /\ Top = True

\* the program is a < b or a > b on two integer literals
IsIntegerComparison ==
    /\ program.kind = "Program"
    /\ Len(program.Statements) = 1
    /\ program.Statements[1].kind = "ExpressionStatement"
    /\ LastExpression.kind = "InfixExpression"
    /\ LastExpression.Operator \in {"<", ">"}
    /\ LastExpression.Left.kind = "IntegerLiteral"
    /\ LastExpression.Right.kind = "IntegerLiteral"

\* C10: a < b is compiled as the right operand, the left operand and
\* OpGreaterThan; and for integer literals a and b, a < b leaves True exactly
\* when a < b and a > b leaves True exactly when a > b.
C10_LessThanIsReorderedGreaterThan ==
    IsIntegerComparison =>
        LET a == LastExpression.Left.Value
            b == LastExpression.Right.Value
            less == LastExpression.Operator = "<"
        IN  /\ pc \notin {"compile_error", "panicked"}
            /\ (pc # "start" /\ less) =>
                   /\ comp.instructions = Make(OpConstant, <<0>>) \o Make(OpConstant, <<1>>)
                                             \o Make(OpGreaterThan, <<>>) \o Make(OpPop, <<>>)
                   /\ Len(comp.constants) = 2
                   /\ At(comp.constants, 0).Value = b
                   /\ At(comp.constants, 1).Value = a
            /\ pc = "returned" =>
                   /\ runErr = NoErr
                   /\ vm.sp = 0
                   /\ LastPoppedStackElem(vm) =
                          IF (less /\ a < b) \/ (~less /\ a > b) THEN True ELSE False

\* the compiled 1 < 2 has left True
C10_Witness ==
    /\ program = Program(<<ExpressionStatement(
                      InfixExpression("<", IntegerLiteral(1), IntegerLiteral(2)))>>)
    /\ pc = "returned"
    /\ runErr = NoErr
    /\ LastPoppedStackElem(vm) = True

\* the ip of the current frame
FrameIp(v) == v.frames[v.framesIndex - 1].ip

\* the two-byte operand of the instruction the last iteration executed
LastOperand16 == ReadUInt16(SliceFrom(Ins(last.vm), FrameIp(last.vm) + 2))

\* the last iteration could read that operand
LastOperandReadable == CanReadUInt16(SliceFrom(Ins(last.vm), FrameIp(last.vm) + 2))

\* truthiness as the claim defines it
RefTruthy(obj) == obj # False /\ obj # Null

\* the objects on the stack
StackObjects == {vm.stack[i] : i \in 0 .. StackSize - 1} \ {nil}

IsBangOfLiteral ==
    /\ program.kind = "Program"
    /\ Len(program.Statements) = 1
    /\ program.Statements[1].kind = "ExpressionStatement"
    /\ LastExpression.kind = "PrefixExpression"
    /\ LastExpression.Operator = "!"
    /\ \/ LastExpression.Right \in Atoms
       \/ /\ LastExpression.Right.kind = "PrefixExpression"
          /\ LastExpression.Right.Operator = "!"
          /\ LastExpression.Right.Right \in Atoms

\* a literal is truthy unless it is false
TruthyLiteral(a) == a.kind # "Boolean" \/ a.BoolValue

\* C12: OpBang pops one object and pushes True if it is False or Null and
\* False otherwise; the compiled !x leaves True exactly when x is non-truthy
\* and !!x leaves True exactly when x is truthy.
C12_Bang ==
    /\ (last.op = OpBang /\ HadOperands(1) /\ RightOperand # nil)
       => (/\ WentThrough
           /\ vm.sp = last.vm.sp
           /\ Top = IF RightOperand = False \/ RightOperand = Null THEN True ELSE False)
    /\ IsBangOfLiteral
       => (/\ pc \notin {"compile_error", "panicked"}
           /\ pc = "returned"
              => (/\ runErr = NoErr
                  /\ vm.sp = 0
                  /\ LastPoppedStackElem(vm) =
                        IF LastExpression.Right \in Atoms
                        THEN (IF TruthyLiteral(LastExpression.Right) THEN False ELSE True)
                        ELSE (IF TruthyLiteral(LastExpression.Right.Right)
                              THEN True ELSE False)))

\* the compiled !!2 has left True
C12_Witness ==
    /\ program = Program(<<ExpressionStatement(
                      PrefixExpression("!", PrefixExpression("!", IntegerLiteral(2))))>>)
    /\ pc = "returned"
    /\ runErr = NoErr
    /\ last.op = OpPop
    /\ LastPoppedStackElem(vm) = True

\* the program is one if expression that has a reference value
IsIfWithValue ==
    /\ program.kind = "Program"
    /\ Len(program.Statements) = 1
    /\ program.Statements[1].kind = "ExpressionStatement"
    /\ LastExpression.kind = "IfExpression"
    /\ RefEval(LastExpression).t # "none"

\* C13: an if expression whose condition has a truthiness and whose branches
\* end in an expression leaves exactly one object: the value of the
\* consequence when the condition is truthy, the value of the alternative
\* otherwise, Null when there is no alternative; on both paths the OpPop of
\* the expression statement finds sp = 1.
C13_IfYieldsOneValue ==
    IsIfWithValue
    => (/\ pc \notin {"compile_error", "panicked"}
        /\ pc = "returned"
           => (/\ runErr = NoErr
               /\ last.op = OpPop
               /\ last.vm.sp = 1
               /\ vm.sp = 0
               /\ Denotes(LastPoppedStackElem(vm), RefEval(LastExpression))))

\* the compiled if (1 > 2) { 1 } has left Null
C13_Witness ==
    /\ program = Program(<<ExpressionStatement(
                      IfExpression(InfixExpression(">", IntegerLiteral(1), IntegerLiteral(2)),
                                   BlockStatement(<<ExpressionStatement(IntegerLiteral(1))>>),
                                   NoNode))>>)
    /\ pc = "returned"
    /\ runErr = NoErr
    /\ last.op = OpPop
    /\ LastPoppedStackElem(vm) = Null

\* the number of operand bytes of an opcode
RECURSIVE SumWidths(_)
SumWidths(widths) == IF widths = <<>> THEN 0 ELSE Head(widths) + SumWidths(Tail(widths))

\* the positions at which the instructions of ins start, from position pos
RECURSIVE InstructionStarts(_, _)
InstructionStarts(ins, pos) ==
    IF pos >= Len(ins) THEN {}
    ELSE {pos} \cup InstructionStarts(ins, pos + 1 + SumWidths(OperandWidths(At(ins, pos))))

\* the positions of the jumps
JumpPositions(ins) ==
    {pos \in InstructionStarts(ins, 0) : At(ins, pos) \in {OpJump, OpJumpNotTruthy}}

JumpTarget(ins, pos) == ReadUInt16(SliceFrom(ins, pos + 1))

\* the operand the compiler emits a jump with before it knows the target
Placeholder == 9999

\* C14: after a successful Compile every OpJump and OpJumpNotTruthy of the
\* instructions has a target that is the start of an instruction or the end
\* of the instructions, and none keeps the placeholder operand.
C14_JumpTargetsAreBoundaries ==
    (program # NoNode /\ pc \notin {"start", "compile_error"})
    => \A pos \in JumpPositions(comp.instructions) :
          /\ JumpTarget(comp.instructions, pos) # Placeholder
          /\ JumpTarget(comp.instructions, pos) <= Len(comp.instructions)
          /\ JumpTarget(comp.instructions, pos)
                \in InstructionStarts(comp.instructions, 0) \cup {Len(comp.instructions)}

\* if (true) { if (true) { 1 } } is compiled: two pops were removed and four
\* jumps patched
C14_Witness ==
    /\ program = Program(<<ExpressionStatement(
                      IfExpression(BooleanLiteral(TRUE),
                                   BlockStatement(<<ExpressionStatement(
                                       IfExpression(BooleanLiteral(TRUE),
                                                    BlockStatement(<<ExpressionStatement(
                                                        IntegerLiteral(1))>>),
                                                    NoNode))>>),
                                   NoNode))>>)
    /\ pc = "compiled"
    /\ Cardinality(JumpPositions(comp.instructions)) = 4

\* the bytes of operand number k (1-based) inside an instruction
OperandOffset(widths, k) == 1 + SumWidths(SubSeq(widths, 1, k - 1))

\* C15: for every opcode of the instruction set, OpClosure and OpGetFree
\* included, and operands within the declared widths, Make yields the opcode
\* byte and the operands at their widths, a 2-byte operand high byte first;
\* Lookup finds the definition; ReadOperands on the bytes after the opcode
\* returns the operands, and 1 + the bytes read is the length Make produced.
C15_RoundTrip ==
    LET widths == SpecWidths(codec.op)
        made == codec.instruction
    IN  codec.call = "Make" =>
        /\ codec.phase # "make"
           => /\ Len(made) = 1 + SumWidths(widths)
              /\ \A k \in 1 .. Len(widths) :
                    widths[k] = 2
                    => /\ made[OperandOffset(widths, k) + 1] = codec.operands[k] \div 256
                       /\ made[OperandOffset(widths, k) + 2] = codec.operands[k] % 256
        /\ codec.phase \notin {"undefined", "panicked"}
        /\ codec.phase = "read"
           => /\ codec.read = codec.operands
              /\ 1 + codec.offset = Len(made)

\* the same round trip, for the opcodes the definitions map holds
DefinedRoundTrip ==
    codec.op \in DefinedOpcodes => C15_RoundTrip

\* the lines String has to write for ins from position pos on, reading
\* past an undefined byte as an instruction of one byte
RECURSIVE RefLines(_, _)
RefLines(ins, pos) ==
    IF pos >= Len(ins) THEN <<>>
    ELSE LET op == At(ins, pos)
         IN  IF LookupFails(op)
             THEN <<ErrorLine(op)>> \o RefLines(ins, pos + 1)
             ELSE LET r == ReadOperands(OperandWidths(op), SliceFrom(ins, pos + 1))
                  IN  IF r.panic THEN <<Line(pos, op, <<>>)>>
                      ELSE <<Line(pos, op, r.operands)>>
                           \o RefLines(ins, pos + 1 + r.offset)

\* C16: Instructions.String returns for every byte sequence, having written
\* one line for each instruction and one ERROR line for each byte that is
\* not a defined opcode.
C16_StringTerminates ==
    (codec.phase = "string")
        ~> (codec.phase = "returned" /\ codec.out = RefLines(codec.ins, 0))

\* String on a sequence of defined opcodes with their operands returns
WellFormedStringReturns ==
    (codec.phase = "string" /\ \A k \in 1 .. Len(codec.ins) : codec.ins[k] = OpAdd)
        ~> (codec.phase = "returned" /\ codec.out = RefLines(codec.ins, 0))

\* C17: in every table the k-th Define (k = 0, 1, ...) returns index k,
\* whatever DefineBuiltin and Resolve calls came in between, with scope
\* GLOBAL in the table without an outer table and LOCAL in an enclosed one;
\* each enclosed table counts from 0.
C17_DefineIndexDensity ==
    symtab.ret.op = "Define"
    => /\ symtab.ret.symbol.Index = symtab.defines[symtab.ret.on] - 1
       /\ symtab.ret.symbol.Name = symtab.ret.name
       /\ symtab.ret.symbol.Scope =
              IF symtab.ret.on = "global" THEN GlobalScope ELSE LocalScope

\* the second Define of the innermost table returns index 1 after a
\* DefineBuiltin on that table and two Defines on the global table
C17_Witness ==
    /\ symtab.phase = "open"
    /\ symtab.ret.op = "Define"
    /\ symtab.ret.on = "inner"
    /\ symtab.ret.symbol.Index = 1
    /\ symtab.defines["global"] = 2
    /\ \E n \in DOMAIN symtab.inner.store : symtab.inner.store[n].Scope = BuiltinScope

\* the entries of a store that Define made
DefinedEntries(s) ==
    {n \in DOMAIN s.store : s.store[n].Scope \in {LocalScope, GlobalScope}}

\* C18: after any sequence of Define, DefineBuiltin and Resolve calls,
\* numDefinitions of a table is the number of entries of its store with
\* scope LOCAL or GLOBAL, also when a name is defined twice or defined
\* after DefineBuiltin registered it.
C18_NumDefinitionsCountsEntries ==
    symtab.phase = "open"
    => \A which \in TableNames :
          TableOf(symtab, which).numDefinitions
              = Cardinality(DefinedEntries(TableOf(symtab, which)))

\* the same count, as long as every Define introduced a name the store did
\* not hold and no DefineBuiltin replaced a defined one
NumDefinitionsCountsFreshNames ==
    symtab.phase = "open"
    => \A which \in TableNames :
          Cardinality(DefinedEntries(TableOf(symtab, which)))
              <= TableOf(symtab, which).numDefinitions

FreeScope == "FREE"

\* the tables Resolve visits from a table outward
Chain(which) ==
    CASE which = "inner" -> <<"inner", "outer", "global">>
      [] which = "outer" -> <<"outer", "global">>
      [] OTHER -> <<"global">>

\* the nearest table of the chain that holds the name, "none" without one
RECURSIVE Owner(_, _, _)
Owner(st, chain, name) ==
    IF chain = <<>> THEN "none"
    ELSE IF name \in DOMAIN st[Head(chain)].store THEN Head(chain)
    ELSE Owner(st, Tail(chain), name)

ResolvedAsSpecified(st, after) ==
    LET r == after.ret
        owner == Owner(st, Chain(r.on), r.name)
    IN  CASE owner = "none" -> ~r.ok
          [] owner = r.on -> r.ok /\ r.symbol = st[r.on].store[r.name]
          [] OTHER ->
              LET found == st[owner].store[r.name]
              IN  IF found.Scope \in {GlobalScope, BuiltinScope}
                  THEN r.ok /\ r.symbol = found
                  ELSE /\ r.ok
                       /\ r.symbol.Scope = FreeScope
                       /\ r.symbol.Name = r.name
                       /\ r.name \in DOMAIN after[r.on].store
                       /\ after[r.on].store[r.name] = r.symbol

\* C19: Resolve returns a name of the table itself as stored, a GLOBAL or
\* BUILTIN name of an ancestor as stored there, a LOCAL or FREE name of an
\* ancestor as a FREE symbol that the table it was called on has recorded,
\* and found = false for a name no table of the chain holds.
C19_Resolve ==
    [][symtab'.ret.op = "Resolve" => ResolvedAsSpecified(symtab, symtab')]_vars

\* the same, for the names that are not the LOCAL of an enclosing table
ResolveOutsideCapture ==
    [][(/\ symtab'.ret.op = "Resolve"
        /\ LET owner == Owner(symtab, Chain(symtab'.ret.on), symtab'.ret.name)
           IN  owner \in {"none", symtab'.ret.on, "global"})
       => ResolvedAsSpecified(symtab, symtab')]_vars

\* the expression mentions the name
RECURSIVE Mentions(_, _)
Mentions(e, x) ==
    CASE e.kind = "Identifier" -> e.Name = x
      [] e.kind = "InfixExpression" -> Mentions(e.Left, x) \/ Mentions(e.Right, x)
      [] e.kind = "PrefixExpression" -> Mentions(e.Right, x)
      [] OTHER -> FALSE

\* the statements of a block, none for a missing one
StatementsOf(block) == IF block = NoNode THEN <<>> ELSE block.Statements

HasLet(stmts, x) ==
    \E k \in 1 .. Len(stmts) : stmts[k].kind = "LetStatement" /\ stmts[k].Name = x

\* the statement holds a let of the name, at its top or in a branch of an if
BindsName(stmt, x) ==
    \/ HasLet(<<stmt>>, x)
    \/ /\ stmt.kind = "ExpressionStatement"
       /\ stmt.Expression.kind = "IfExpression"
       /\ \/ HasLet(StatementsOf(stmt.Expression.Consequence), x)
          \/ HasLet(StatementsOf(stmt.Expression.Alternative), x)

\* a program of two statements whose second is let x = ... x ...
EndsInSelfLet(p) ==
    /\ p.kind = "Program"
    /\ Len(p.Statements) = 2
    /\ LastStatement(p).kind = "LetStatement"
    /\ Mentions(LastStatement(p).LetValue, LastStatement(p).Name)

\* the operands of the instructions with the opcode
OperandsOf(ins, op) ==
    {ReadOperands(OperandWidths(op), SliceFrom(ins, pos + 1)).operands[1] :
        pos \in {q \in InstructionStarts(ins, 0) : At(ins, q) = op}}

\* C20: the value of let x = ... is compiled before x is defined, in a
\* program whose statement before the let compiles.  With a
\* binding of x from an earlier statement, the x of the value loads that
\* binding (global 0) and the statement stores into a new one (global 1);
\* with none, Compile returns the undefined-variable error and the symbol
\* table holds no x.
C20_LetValueBeforeName ==
    (/\ program # NoNode
     /\ pc # "start"
     /\ EndsInSelfLet(program)
     /\ Compile(NewCompiler, program.Statements[1]).err = NoErr)
    => LET x == LastStatement(program).Name
       IN  IF BindsName(program.Statements[1], x)
           THEN /\ comp.err = NoErr
                /\ OperandsOf(comp.instructions, OpGetGlobal) = {0}
                /\ 1 \in OperandsOf(comp.instructions, OpSetGlobal)
                /\ comp.symbolTable.store[x].Index = 1
           ELSE /\ pc = "compile_error"
                /\ comp.err = ErrUndefinedVariable
                /\ x \notin DOMAIN comp.symbolTable.store
                /\ comp.symbolTable.numDefinitions = 0

\* 2; let x = x has been refused
C20_Witness ==
    /\ program = Program(<<ExpressionStatement(IntegerLiteral(2)),
                           LetStatement("x", Identifier("x"))>>)
    /\ pc = "compile_error"
    /\ comp.err = ErrUndefinedVariable

\* let x = 2; let x = x + 1 has been compiled
LetOverPriorBindingCompiles ==
    /\ program = Program(<<LetStatement("x", IntegerLiteral(2)),
                           LetStatement("x", InfixExpression("+", Identifier("x"),
                                                             IntegerLiteral(1)))>>)
    /\ pc = "compiled"

\* the opcodes that store to and load from a symbol of the scope
SetOpcode(scope) == IF scope = GlobalScope THEN OpSetGlobal ELSE OpSetLocal

GetOpcode(scope) ==
    CASE scope = GlobalScope -> OpGetGlobal
      [] scope = LocalScope -> OpGetLocal
      [] scope = BuiltinScope -> OpGetBuiltin
      [] OTHER -> OpGetFree

\* the instruction emitted last, with its operands
LastEmitted(c) == SliceFrom(c.instructions, c.lastInstruction.Position)

\* a program of one statement that binds or reads a name
IsLetOfLiteral(p) ==
    /\ Len(p.Statements) = 1
    /\ p.Statements[1].kind = "LetStatement"
    /\ p.Statements[1].LetValue.kind = "IntegerLiteral"

IsIdentifierStatement(p) ==
    /\ Len(p.Statements) = 1
    /\ p.Statements[1].kind = "ExpressionStatement"
    /\ p.Statements[1].Expression.kind = "Identifier"

BindingOpcodeMatchesScope(c, after) ==
    /\ IsLetOfLiteral(program)
       => LET symbol == DefineSymbol(c.symbolTable, program.Statements[1].Name)
          IN  /\ after.err = NoErr
              /\ LastEmitted(after) = Make(SetOpcode(symbol.Scope), <<symbol.Index>>)
    /\ IsIdentifierStatement(program)
       => LET r == Resolve(c.symbolTable, program.Statements[1].Expression.Name)
          IN  IF r.ok
              THEN /\ after.err = NoErr
                   /\ after.instructions
                         = c.instructions
                           \o Make(GetOpcode(r.symbol.Scope), <<r.symbol.Index>>)
                           \o Make(OpPop, <<>>)
              ELSE /\ after.err = ErrUndefinedVariable
                   /\ after.instructions = c.instructions

\* C21: a let statement emits OpSetGlobal with the index of the symbol when
\* Define returned a GLOBAL symbol and OpSetLocal otherwise; an identifier
\* emits OpGetGlobal, OpGetLocal, OpGetBuiltin or OpGetFree by the scope of
\* the symbol Resolve returned, with its index; an identifier that does not
\* resolve is a compile error.
C21_BindingOpcodeMatchesScope ==
    [][(pc = "start" /\ pc' # "start") => BindingOpcodeMatchesScope(comp, comp')]_vars

\* the same, when the symbol the statement binds or reads is GLOBAL or the
\* name does not resolve
GlobalBindingOpcodes ==
    [][(/\ pc = "start" /\ pc' # "start"
        /\ IsLetOfLiteral(program) => comp.symbolTable.Outer = NoTable
        /\ IsIdentifierStatement(program)
           => LET r == Resolve(comp.symbolTable, program.Statements[1].Expression.Name)
              IN  r.ok => r.symbol.Scope = GlobalScope)
       => BindingOpcodeMatchesScope(comp, comp')]_vars

\* an expression of literals, identifiers, prefix and infix operators
RECURSIVE IsOperatorTree(_)
IsOperatorTree(e) ==
    CASE e.kind \in {"IntegerLiteral", "Boolean", "StringLiteral", "Identifier"} -> TRUE
      [] e.kind = "PrefixExpression" -> IsOperatorTree(e.Right)
      [] e.kind = "InfixExpression" -> IsOperatorTree(e.Left) /\ IsOperatorTree(e.Right)
      [] OTHER -> FALSE

\* the operand the compiler visits first, and second
FirstOperand(e) == IF e.Operator = "<" THEN e.Right ELSE e.Left

SecondOperand(e) == IF e.Operator = "<" THEN e.Left ELSE e.Right

\* the error of the first node that fails when no name is bound, NoErr
\* when none fails
RECURSIVE RefError(_)
RefError(e) ==
    CASE e.kind = "Identifier" -> ErrUndefinedVariable
      [] e.kind = "PrefixExpression" ->
            IF RefError(e.Right) # NoErr THEN RefError(e.Right)
            ELSE IF e.Operator \in {"!", "-"} THEN NoErr ELSE ErrUnknownOperator
      [] e.kind = "InfixExpression" ->
            IF RefError(FirstOperand(e)) # NoErr THEN RefError(FirstOperand(e))
            ELSE IF RefError(SecondOperand(e)) # NoErr THEN RefError(SecondOperand(e))
            ELSE IF e.Operator \in ArithOperators \cup CompareOperators THEN NoErr
            ELSE ErrUnknownOperator
      [] OTHER -> NoErr

\* the nodes of a failing expression that were compiled whole before the
\* first failure, in the order the compiler visited them
RECURSIVE CompiledBeforeFailure(_)
CompiledBeforeFailure(e) ==
    CASE e.kind = "PrefixExpression" ->
            IF RefError(e.Right) # NoErr THEN CompiledBeforeFailure(e.Right)
            ELSE <<e.Right>>
      [] e.kind = "InfixExpression" ->
            IF RefError(FirstOperand(e)) # NoErr
            THEN CompiledBeforeFailure(FirstOperand(e))
            ELSE IF RefError(SecondOperand(e)) # NoErr
            THEN <<FirstOperand(e)>> \o CompiledBeforeFailure(SecondOperand(e))
            ELSE <<FirstOperand(e), SecondOperand(e)>>
      [] OTHER -> <<>>

\* the instructions of the nodes, one after the other
RECURSIVE InstructionsOfEach(_, _)
InstructionsOfEach(c, nodes) ==
    IF nodes = <<>> THEN c.instructions
    ELSE InstructionsOfEach(Compile(c, Head(nodes)), Tail(nodes))

\* a statement that fails on a compiler without bindings
FailsAlone(stmt) ==
    /\ stmt.kind = "ExpressionStatement"
    /\ IsOperatorTree(stmt.Expression)
    /\ RefError(stmt.Expression) # NoErr

StartedFresh == program \in Programs

\* C22: Compile returns the error of the first node that fails in the order
\* of its traversal; the instructions hold what was emitted before that
\* failure and nothing after it; a statement after the failing one is not
\* compiled.
C22_FirstErrorHaltsEmission ==
    (StartedFresh /\ pc # "start" /\ Len(program.Statements) > 0
        /\ FailsAlone(program.Statements[1]))
    => LET e == program.Statements[1].Expression
       IN  /\ pc = "compile_error"
           /\ comp.err = RefError(e)
           /\ comp.instructions
                 = InstructionsOfEach(NewCompiler, CompiledBeforeFailure(e))
           /\ bytecode = NoBytecode
           /\ Len(program.Statements) = 2
              => /\ comp.symbolTable = NewSymbolTable
                 /\ Len(comp.constants)
                       <= Len(Compile(NewCompiler, program.Statements[1]).constants)

\* u; let y = 1 has failed on u
C22_Witness ==
    /\ program = Program(<<ExpressionStatement(Identifier("u")),
                           LetStatement("y", IntegerLiteral(1))>>)
    /\ pc = "compile_error"
    /\ comp.err = ErrUndefinedVariable
    /\ comp.instructions = <<>>

\* 1 + ~2 has failed after the two literals were emitted
OperatorFailsAfterOperands ==
    /\ program = Program(<<ExpressionStatement(
                      InfixExpression("+", IntegerLiteral(1),
                                      PrefixExpression("~", IntegerLiteral(2))))>>)
    /\ pc = "compile_error"
    /\ Len(comp.instructions) = 6

\* the one-byte operand of the instruction the last iteration executed
LastOperandPresent == InRange(Ins(last.vm), FrameIp(last.vm) + 2)

LastOperand8 == At(Ins(last.vm), FrameIp(last.vm) + 2)

\* the last iteration executed OpCall N with the callee slot and N arguments
\* on the stack and a free cell in frames
CalledWithArguments ==
    /\ last.op = OpCall
    /\ LastOperandPresent
    /\ last.vm.sp - 1 - LastOperand8 >= 0
    /\ last.vm.framesIndex < MaxFrames

\* the object in the callee slot of OpCall N
Callee == last.vm.stack[last.vm.sp - 1 - LastOperand8]

\* Run returned a non-nil error
ReturnedError == pc = "returned" /\ runErr # NoErr

\* the last iteration pushed a frame for the function
PushedFrameFor(fn) ==
    /\ pc = "running"
    /\ vm.framesIndex = last.vm.framesIndex + 1
    /\ currentFrame(vm).fn = fn
    /\ currentFrame(vm).ip = -1

\* C23: OpCall N takes the callee from stack[sp-1-N], below its N
\* arguments.  For a compiled function Run either returns an error (N is not
\* its number of parameters) or goes on with a new frame for that function,
\* ip = -1, and sp no lower than the base pointer sp - N; for anything else
\* in the callee slot Run returns an error.
C23_CallTakesCalleeBelowArguments ==
    CalledWithArguments
    => IF Callee.type = COMPILED_FUNCTION_OBJ
       THEN \/ ReturnedError
            \/ PushedFrameFor(Callee) /\ vm.sp >= last.vm.sp - LastOperand8
       ELSE ReturnedError

\* the same for OpCall 0, where the callee slot is the top of the stack
CallWithoutArguments ==
    (CalledWithArguments /\ LastOperand8 = 0)
    => IF Callee.type = COMPILED_FUNCTION_OBJ
       THEN PushedFrameFor(Callee) /\ vm.sp = last.vm.sp
       ELSE ReturnedError /\ vm.framesIndex = last.vm.framesIndex

\* the last iteration executed a return in a called frame
ReturnedFromCall ==
    /\ last.op \in {OpReturnValue, OpReturn}
    /\ last.vm.framesIndex >= 2
    /\ last.op = OpReturnValue => last.vm.sp >= 1

\* the stack slot of the function that frame runs: the topmost one that
\* holds it (no function of the model pushes itself and returns)
CalleeSlots ==
    {j \in 0 .. last.vm.sp - 1 : last.vm.stack[j] = currentFrame(last.vm).fn}

CalleeSlot == CHOOSE j \in CalleeSlots : \A k \in CalleeSlots : k <= j

ReturnedValue == IF last.op = OpReturn THEN Null ELSE last.vm.stack[last.vm.sp - 1]

\* C24: OpReturnValue and OpReturn pop the frame, set sp to the slot of the
\* callee (basePointer - 1) and push the return value, Null for OpReturn:
\* the caller's stack is what it was below the callee slot, plus the result.
C24_ReturnRestoresCallerStack ==
    (ReturnedFromCall /\ CalleeSlots # {})
    => /\ WentThrough
       /\ vm.framesIndex = last.vm.framesIndex - 1
       /\ vm.sp = CalleeSlot + 1
       /\ vm.stack[CalleeSlot] = ReturnedValue
       /\ \A j \in 0 .. CalleeSlot - 1 : vm.stack[j] = last.vm.stack[j]

\* the same for a function that returns with nothing of its own left on the
\* stack below the return value
ReturnFromBalancedBody ==
    (/\ ReturnedFromCall
     /\ CalleeSlots # {}
     /\ CalleeSlot = last.vm.sp - (IF last.op = OpReturn THEN 1 ELSE 2))
    => /\ WentThrough
       /\ vm.framesIndex = last.vm.framesIndex - 1
       /\ vm.sp = CalleeSlot + 1
       /\ vm.stack[CalleeSlot] = ReturnedValue
       /\ \A j \in 0 .. CalleeSlot - 1 : vm.stack[j] = last.vm.stack[j]

\* C25: OpCall on a callee that is no function makes Run return an error
\* and pushes no frame.
C25_CallingNonFunctionIsError ==
    (CalledWithArguments /\ Callee.type # COMPILED_FUNCTION_OBJ)
    => (ReturnedError /\ vm.framesIndex = last.vm.framesIndex)

\* the same with the object OpCall examines, the top of the stack
TopOfStackNonFunctionIsError ==
    (last.op = OpCall /\ HadOperands(1) /\ RightOperand.type # COMPILED_FUNCTION_OBJ)
    => (/\ ReturnedError
        /\ runErr = ErrCallingNonFunction
        /\ vm.framesIndex = last.vm.framesIndex
        /\ vm.sp = last.vm.sp)

\* the last iteration executed OpIndex with a left operand and an index
Indexed == last.op = OpIndex /\ HadOperands(2)

\* two keys of a hash are the same key: same type, same value
RefSameKey(a, b) ==
    /\ a.type = b.type
    /\ CASE a.type = INTEGER_OBJ -> a.Value = b.Value
         [] a.type = BOOLEAN_OBJ -> a.BoolValue = b.BoolValue
         [] a.type = STRING_OBJ -> a.StrValue = b.StrValue
         [] OTHER -> FALSE

RefHashable(obj) == obj.type \in {INTEGER_OBJ, BOOLEAN_OBJ, STRING_OBJ}

\* the hash holds a pair under the key
RefHasKey(hash, key) ==
    \E k \in DOMAIN hash.Pairs : RefSameKey(hash.Pairs[k].Key, key)

PushedOneForTwoOperands == WentThrough /\ vm.sp = last.vm.sp - 1

\* C26: OpIndex on an Array with an Integer index i pushes the element at i
\* when 0 <= i < len and Null for every other i; OpIndex on a Hash with a
\* hashable key it does not hold pushes Null; Run goes on without error.
C26_OutOfRangeIndexIsNull ==
    Indexed
    => /\ (LeftOperand.type = ARRAY_OBJ /\ RightOperand.type = INTEGER_OBJ)
          => /\ PushedOneForTwoOperands
             /\ Top = IF /\ 0 <= RightOperand.Value
                          /\ RightOperand.Value < Len(LeftOperand.Elements)
                       THEN LeftOperand.Elements[RightOperand.Value + 1]
                       ELSE Null
       /\ (/\ LeftOperand.type = HASH_OBJ
           /\ RefHashable(RightOperand)
           /\ ~RefHasKey(LeftOperand, RightOperand))
          => (PushedOneForTwoOperands /\ Top = Null)

\* [1, 2][-1] has left Null
C26_Witness ==
    /\ Indexed
    /\ LeftOperand.type = ARRAY_OBJ
    /\ Len(LeftOperand.Elements) = 2
    /\ RightOperand.type = INTEGER_OBJ
    /\ RightOperand.Value = -1
    /\ pc = "running"
    /\ Top = Null

\* a hash of one pair indexed with a key it does not hold has left Null
AbsentKeyIsNull ==
    /\ Indexed
    /\ LeftOperand.type = HASH_OBJ
    /\ DOMAIN LeftOperand.Pairs # {}
    /\ RefHashable(RightOperand)
    /\ ~RefHasKey(LeftOperand, RightOperand)
    /\ Top = Null

\* the stack positions of the keys OpHash 2N reads
KeyPositions ==
    {j \in last.vm.sp - LastOperand16 .. last.vm.sp - 1 :
        (j - (last.vm.sp - LastOperand16)) % 2 = 0}

\* the last iteration executed OpHash 2N on 2N objects
BuiltHash ==
    /\ last.op = OpHash
    /\ LastOperandReadable
    /\ LastOperand16 % 2 = 0
    /\ last.vm.sp >= LastOperand16
    /\ \A j \in last.vm.sp - LastOperand16 .. last.vm.sp - 1 : last.vm.stack[j] # nil

\* C27: OpHash with a key that is no Integer, Boolean or String makes Run
\* return an error with sp and the stack as they were; OpIndex on a Hash
\* with such an index, and OpIndex on a left operand that is neither an
\* Array indexed by an Integer nor a Hash, make Run return an error.
C27_UnhashableKeyIsError ==
    /\ (BuiltHash /\ \E j \in KeyPositions : ~RefHashable(last.vm.stack[j]))
       => (/\ ReturnedError
           /\ vm.sp = last.vm.sp
           /\ vm.stack = last.vm.stack)
    /\ (Indexed /\ LeftOperand # nil /\ RightOperand # nil)
       => /\ (LeftOperand.type = HASH_OBJ /\ ~RefHashable(RightOperand))
             => ReturnedError
          /\ (LeftOperand.type = ARRAY_OBJ /\ RightOperand.type # INTEGER_OBJ)
             => ReturnedError
          /\ LeftOperand.type \notin {ARRAY_OBJ, HASH_OBJ} => ReturnedError

\* OpHash 4 whose second key is an array has failed with four objects on
\* the stack
C27_Witness ==
    /\ BuiltHash
    /\ LastOperand16 = 4
    /\ last.vm.stack[last.vm.sp - 2].type = ARRAY_OBJ
    /\ ReturnedError
    /\ vm.sp = 4

\* a hash indexed with Null has failed
UnhashableIndexFails ==
    /\ Indexed
    /\ LeftOperand.type = HASH_OBJ
    /\ RightOperand = Null
    /\ ReturnedError

\* every global but the one at idx is what it was
OtherGlobalsUnchanged(idx) ==
    /\ DOMAIN vm.globals \ {idx} = DOMAIN last.vm.globals \ {idx}
    /\ \A g \in DOMAIN vm.globals \ {idx} : vm.globals[g] = last.vm.globals[g]

\* C28: OpSetGlobal idx pops the top of the stack into globals[idx] and
\* leaves every other global as it was; OpGetGlobal idx pushes globals[idx];
\* no other instruction writes a global; the names of two let statements
\* get two indices, and let x = a; let y = x + b; y leaves a + b.
C28_GlobalBindings ==
    /\ (last.op = OpSetGlobal /\ LastOperandReadable /\ HadOperands(1))
       => /\ WentThrough
          /\ vm.sp = last.vm.sp - 1
          /\ GlobalAt(vm, LastOperand16) = RightOperand
          /\ OtherGlobalsUnchanged(LastOperand16)
    /\ (last.op = OpGetGlobal /\ LastOperandReadable /\ last.vm.sp < StackSize)
       => /\ WentThrough
          /\ vm.sp = last.vm.sp + 1
          /\ Top = GlobalAt(last.vm, LastOperand16)
    /\ (last.op \notin {-1, OpSetGlobal}) => vm.globals = last.vm.globals
    /\ (program \in LetChains /\ pc \notin {"start"})
       => /\ comp.err = NoErr
          /\ comp.symbolTable.store["x"].Index # comp.symbolTable.store["y"].Index
    /\ (program \in LetChains /\ pc = "returned")
       => /\ runErr = NoErr
          /\ vm.sp = 0
          /\ LastPoppedStackElem(vm).type = INTEGER_OBJ
          /\ LastPoppedStackElem(vm).Value
                = program.Statements[1].LetValue.Value
                  + program.Statements[2].LetValue.Right.Value

\* let x = 5; let y = x + 10; y has left 15
C28_Witness ==
    /\ program = Program(<<LetStatement("x", IntegerLiteral(5)),
                           LetStatement("y", InfixExpression("+", Identifier("x"),
                                                             IntegerLiteral(10))),
                           ExpressionStatement(Identifier("y"))>>)
    /\ pc = "returned"
    /\ runErr = NoErr
    /\ LastPoppedStackElem(vm).type = INTEGER_OBJ
    /\ LastPoppedStackElem(vm).Value = 15

\* the operands of the OpConstant instructions, in the order of the
\* instructions
RECURSIVE ConstantOperands(_, _)
ConstantOperands(ins, pos) ==
    IF pos >= Len(ins) THEN <<>>
    ELSE (IF At(ins, pos) = OpConstant
          THEN <<ReadUInt16(SliceFrom(ins, pos + 1))>>
          ELSE <<>>)
         \o ConstantOperands(ins, pos + 1 + SumWidths(OperandWidths(At(ins, pos))))

\* a compilation took the pool from before to after
PoolOnlyGrew(before, after) ==
    /\ Len(after.constants) >= Len(before.constants)
    /\ SubSeq(after.constants, 1, Len(before.constants)) = before.constants
    /\ ConstantOperands(after.instructions, 0)
          = [k \in 1 .. Len(after.constants) - Len(before.constants)
                |-> Len(before.constants) + k - 1]

EndsInHashLiteral(p) ==
    /\ p # NoNode
    /\ EndsInExpression(p)
    /\ LastStatement(p).Expression.kind = "HashLiteral"

\* the orders in which a range over the map of the pairs may yield them
OrdersOf(pairs) ==
    LET n == Len(pairs)
    IN  {[i \in 1 .. n |-> pairs[f[i]]] :
            f \in {g \in [1 .. n -> 1 .. n] :
                      \A i, j \in 1 .. n : i # j => g[i] # g[j]}}

\* the same program, the range over the map of its hash literal yielding
\* the pairs in another order
WithPairs(p, pairs) ==
    Program(SubSeq(p.Statements, 1, Len(p.Statements) - 1)
            \o <<ExpressionStatement(HashLiteral(pairs))>>)

\* the instructions of a second, fresh compilation
CompiledAgain(p) == Compile(NewCompiler, p).instructions

SameInstructionsInEveryOrder ==
    \A o \in OrdersOf(LastStatement(program).Expression.Pairs) :
        CompiledAgain(WithPairs(program, o)) = comp.instructions

DistinctTextualForms(pairs) ==
    \A i, j \in 1 .. Len(pairs) :
        i # j => NodeString(pairs[i].Key) # NodeString(pairs[j].Key)

\* C30: two fresh compilations of the same hash literal emit the same
\* instructions, whatever the order in which the range over its pairs
\* yields them, two keys of the same textual form included.
C30_HashLiteralDeterminism ==
    (/\ StartedFresh
     /\ EndsInHashLiteral(program)
     /\ pc = "compiled"
     /\ comp.err = NoErr)
    => SameInstructionsInEveryOrder

\* the same, for the literals whose keys all read differently
DistinctKeysCompileInTextualOrder ==
    (/\ StartedFresh
     /\ EndsInHashLiteral(program)
     /\ pc = "compiled"
     /\ comp.err = NoErr
     /\ DistinctTextualForms(LastStatement(program).Expression.Pairs))
    => SameInstructionsInEveryOrder

\* { 10: true, 2: false, 1: true } compiled: the keys in the order 1, 10, 2
ThreeKeysSortedByText ==
    /\ EndsInHashLiteral(program)
    /\ pc = "compiled"
    /\ LastStatement(program).Expression.Pairs
          = <<Pair(IntegerLiteral(10), BooleanLiteral(TRUE)),
              Pair(IntegerLiteral(2), BooleanLiteral(FALSE)),
              Pair(IntegerLiteral(1), BooleanLiteral(TRUE))>>
    /\ comp.instructions
          = Make(OpConstant, <<0>>) \o Make(OpSetGlobal, <<0>>)
            \o Make(OpConstant, <<1>>) \o Make(OpTrue, <<>>)
            \o Make(OpConstant, <<2>>) \o Make(OpTrue, <<>>)
            \o Make(OpConstant, <<3>>) \o Make(OpFalse, <<>>)
            \o Make(OpHash, <<6>>) \o Make(OpPop, <<>>)
    /\ comp.constants[2].Value = 1
    /\ comp.constants[3].Value = 10
    /\ comp.constants[4].Value = 2

\* let g = 1; { g: true, g: false } compiled with the range yielding the
\* pair of true first: the values are emitted in that order, and in the
\* other order when the range yields the pair of false first
SameNameKeysFollowRangeOrder ==
    /\ program = Program(<<LetStatement("g", IntegerLiteral(1)),
                           ExpressionStatement(HashLiteral(
                               <<Pair(Identifier("g"), BooleanLiteral(TRUE)),
                                 Pair(Identifier("g"), BooleanLiteral(FALSE))>>))>>)
    /\ pc = "compiled"
    /\ comp.err = NoErr
    /\ comp.instructions
          = Make(OpConstant, <<0>>) \o Make(OpSetGlobal, <<0>>)
            \o Make(OpGetGlobal, <<0>>) \o Make(OpTrue, <<>>)
            \o Make(OpGetGlobal, <<0>>) \o Make(OpFalse, <<>>)
            \o Make(OpHash, <<4>>) \o Make(OpPop, <<>>)
    /\ CompiledAgain(WithPairs(program,
           <<Pair(Identifier("g"), BooleanLiteral(FALSE)),
             Pair(Identifier("g"), BooleanLiteral(TRUE))>>))
          = Make(OpConstant, <<0>>) \o Make(OpSetGlobal, <<0>>)
            \o Make(OpGetGlobal, <<0>>) \o Make(OpFalse, <<>>)
            \o Make(OpGetGlobal, <<0>>) \o Make(OpTrue, <<>>)
            \o Make(OpHash, <<4>>) \o Make(OpPop, <<>>)

---------------------------------------------------------------------------
(* Frames: how Run ends, where a caller resumes, the main frame.            *)

\* Run has returned nil from its loop condition, no case having returned
ReturnedNilFromLoop ==
    /\ pc = "returned"
    /\ runErr = NoErr
    /\ last.failed = NoErr

\* C31: when Run returns nil the current frame is the main frame and its ip
\* is at the end of the top-level instructions; Run does not return nil
\* because a called function ran off the end of its body.
C31_NilReturnIsMainFrameExhausted ==
    ReturnedNilFromLoop
    => /\ vm.framesIndex = 1
       /\ currentFrame(vm).fn.addr = MainFnAddr
       /\ Ip(vm) >= Len(bytecode.Instructions) - 1

\* when Run returns nil from its loop condition, the frame that is current
\* has no instruction left
NilReturnIsCurrentFrameExhausted ==
    ReturnedNilFromLoop => Ip(vm) >= Len(Ins(vm)) - 1

\* OpConstant 5, OpCall 0 on a function whose body is OpTrue: Run has
\* returned nil in the frame of the function
ReturnedNilInCallee ==
    /\ ReturnedNilFromLoop
    /\ bytecode.Instructions = Make(OpConstant, <<5>>) \o Make(OpCall, <<0>>)
    /\ vm.framesIndex = 2
    /\ currentFrame(vm).fn.addr = ConstAddr(5)
    /\ vm.frames[0].ip = 3

\* Compile and Run are over: Compile refused the program, or Run returned
\* or panicked
Finished == pc \in {"compile_error", "returned", "panicked"}

\* the bytes of OpClosure cidx, freeCount: a two-byte and a one-byte operand
ClosureInstruction(cidx, freeCount) == <<OpClosure>> \o PutUint16(cidx) \o <<freeCount>>

\* C32: a function literal compiles to a CompiledFunction constant and
\* OpClosure cidx, freeCount; a call expression compiles to its callee, its
\* arguments and OpCall N; and the program of newAdder and addTwo runs to
\* Integer 5.
C32_ClosuresEndToEnd ==
    /\ (program = FunctionProgram /\ pc # "start")
       => /\ comp.err = NoErr
          /\ Len(comp.constants) = 2
          /\ comp.constants[2].type = COMPILED_FUNCTION_OBJ
          /\ comp.instructions = ClosureInstruction(1, 0) \o Make(OpPop, <<>>)
    /\ (program = CallProgram /\ pc # "start")
       => /\ comp.err = NoErr
          /\ comp.instructions
                = Make(OpConstant, <<0>>) \o Make(OpSetGlobal, <<0>>)
                  \o Make(OpGetGlobal, <<0>>) \o Make(OpConstant, <<1>>)
                  \o Make(OpCall, <<1>>) \o Make(OpPop, <<>>)
    /\ (program = AdderProgram /\ Finished)
       => /\ pc = "returned"
          /\ runErr = NoErr
          /\ LastPoppedStackElem(vm).type = INTEGER_OBJ
          /\ LastPoppedStackElem(vm).Value = 5

\* a function literal and a call expression compile to no instruction
FunctionsCompileToNothing ==
    /\ (program = FunctionProgram /\ pc # "start")
       => /\ comp.err = NoErr
          /\ comp.constants = <<>>
          /\ comp.instructions = Make(OpPop, <<>>)
    /\ (program = CallProgram /\ pc # "start")
       => /\ comp.err = NoErr
          /\ comp.instructions
                = Make(OpConstant, <<0>>) \o Make(OpSetGlobal, <<0>>) \o Make(OpPop, <<>>)
    /\ (program = AdderProgram /\ pc # "start")
       => /\ comp.err = NoErr
          /\ comp.constants = <<>>
          /\ comp.instructions
                = Make(OpSetGlobal, <<0>>) \o Make(OpSetGlobal, <<1>>) \o Make(OpPop, <<>>)

\* the program of newAdder and addTwo has panicked on its first
\* instruction, OpSetGlobal 0 popping an empty stack
AdderProgramPanics ==
    /\ program = AdderProgram
    /\ pc = "panicked"
    /\ runErr = PanicStackIndex
    /\ last.op = OpSetGlobal
    /\ last.vm.sp = 0

---------------------------------------------------------------------------
(* The bytecode under Run.                                                  *)

\* the VM after n steps of Run on the bytecode b, no other VM running
RECURSIVE AloneAfter(_, _)
AloneAfter(b, n) == IF n = 0 THEN Started(b) ELSE RunOne(AloneAfter(b, n - 1))

\* the function of every frame in use is the main function over the
\* instructions given, or a function of the constants given
FramesRunGivenCode(v, b) ==
    \A k \in 0 .. v.framesIndex - 1 :
        LET fn == v.frames[k].fn
        IN  IF fn.addr = MainFnAddr THEN fn.Instructions = b.Instructions
            ELSE \E c \in 1 .. Len(b.Constants) : b.Constants[c] = fn

\* C33: Run writes neither the constants nor the instructions of the
\* bytecode it was given, whether it returns nil, an error, or panics; and
\* each of two VMs created from the same bytecode is, after any number of
\* its steps and whatever the other VM did in between, where it is after
\* that number of steps on its own.
C33_RunLeavesBytecode ==
    pair.phase = "open"
    => /\ pair.shared = pair.given
       /\ \A i \in VMs :
             /\ pair.of[i] = AloneAfter(pair.given, pair.steps[i])
             /\ pair.of[i].vm.constants = pair.given.Constants
             /\ FramesRunGivenCode(pair.of[i].vm, pair.given)

\* let x = 5; let y = x + 10; y on two VMs: the first has returned nil with
\* 15 popped last while the second is still in the middle of its run, its
\* x written and its y not
C33_Witness ==
    /\ pair.phase = "open"
    /\ pair.given = Bytecode(Compile(NewCompiler,
           Program(<<LetStatement("x", IntegerLiteral(5)),
                     LetStatement("y", InfixExpression("+", Identifier("x"),
                                                       IntegerLiteral(10))),
                     ExpressionStatement(Identifier("y"))>>)))
    /\ pair.of[1].pc = "returned"
    /\ pair.of[1].runErr = NoErr
    /\ LastPoppedStackElem(pair.of[1].vm).Value = 15
    /\ pair.of[2].pc = "running"
    /\ pair.steps[2] = 3
    /\ DOMAIN pair.of[2].vm.globals = {0}

\* two VMs on OpConstant 2, OpCall 0, the function calling itself: both have
\* panicked on the full frames array
BothPanicked ==
    /\ pair.phase = "open"
    /\ pair.given.Instructions = Make(OpConstant, <<2>>) \o Make(OpCall, <<0>>)
    /\ \A i \in VMs : pair.of[i].pc = "panicked"

\* a step of the VM of DoNew is a step of RunOne
IterationIsTheStep ==
    [][pc = "running"
       => Machine(vm', pc', runErr', heap') = RunOne(Machine(vm, pc, runErr, heap))]_vars

---------------------------------------------------------------------------
(* Where the caller resumes.                                                *)

\* the last iteration popped the frame of a called function
PoppedCalleeFrame ==
    /\ ReturnedFromCall
    /\ vm.framesIndex = last.vm.framesIndex - 1

\* the positions of the OpCall instructions
CallPositions(ins) == {pos \in InstructionStarts(ins, 0) : At(ins, pos) = OpCall}

\* C34: after OpReturn or OpReturnValue popped the frame of a function, the
\* next byte the caller fetches (at ip + 1) is the one after an OpCall and
\* its one-byte operand.
C34_CallerResumesAfterCall ==
    PoppedCalleeFrame
    => \E pos \in CallPositions(Ins(vm)) : Ip(vm) + 1 = pos + 2

\* the ip of the caller is still at the opcode of its OpCall: the next byte
\* it fetches is the operand
CallerResumesAtCallOperand ==
    PoppedCalleeFrame => Ip(vm) \in CallPositions(Ins(vm))

\* OpConstant 4, OpCall 0, OpPop: after the function returned its value,
\* the operand 0 of OpCall has been run as OpConstant and panicked for
\* want of two operand bytes
CallOperandDispatched ==
    /\ bytecode.Instructions
          = Make(OpConstant, <<4>>) \o Make(OpCall, <<0>>) \o Make(OpPop, <<>>)
    /\ pc = "panicked"
    /\ runErr = PanicIndex
    /\ last.op = OpConstant
    /\ last.vm.framesIndex = 1
    /\ Ip(last.vm) = 3

\* C35: while Run executes, framesIndex is at least 1 and
\* frames[framesIndex-1] holds a frame; a return executed in the main frame
\* does not pop it.
C35_MainFrameIsNeverPopped ==
    pc \in {"running", "returned", "panicked"}
    => /\ vm.framesIndex >= 1
       /\ vm.frames[vm.framesIndex - 1] # NoFrame

\* framesIndex stays within 0 .. MaxFrames, and a frame is current
\* whenever it is at least 1
FramesIndexInBounds ==
    pc \in {"running", "returned", "panicked"}
    => /\ vm.framesIndex \in 0 .. MaxFrames
       /\ vm.framesIndex >= 1 => vm.frames[vm.framesIndex - 1] # NoFrame

\* OpTrue, OpReturn as the top-level instructions: the return has popped
\* the main frame and the loop condition has panicked reading frames[-1]
MainFramePopped ==
    /\ bytecode.Instructions = Make(OpTrue, <<>>) \o Make(OpReturn, <<>>)
    /\ last.op = OpReturn
    /\ last.vm.framesIndex = 1
    /\ vm.framesIndex = 0
    /\ pc = "panicked"
    /\ runErr = PanicIndex

---------------------------------------------------------------------------
(* The two branches of an if expression.                                    *)

\* the program is one if expression whose condition has a truthiness
IsOneIf ==
    /\ program # NoNode
    /\ program.kind = "Program"
    /\ Len(program.Statements) = 1
    /\ program.Statements[1].kind = "ExpressionStatement"
    /\ LastExpression.kind = "IfExpression"
    /\ RefEval(LastExpression.Condition).t # "none"

\* the number of bytes a block contributes as a branch: its statements
\* without the OpPop of a last expression statement
BranchLength(block) ==
    LET n == Len(Compile(NewCompiler, block).instructions)
    IN  IF /\ Len(block.Statements) > 0
           /\ block.Statements[Len(block.Statements)].kind = "ExpressionStatement"
        THEN n - 1
        ELSE n

\* where the parts of the if expression lie in the instructions
JumpNotTruthyAt == Len(Compile(NewCompiler, LastExpression.Condition).instructions)

ConsequenceAt == JumpNotTruthyAt + 3

JumpAt == ConsequenceAt + BranchLength(LastExpression.Consequence)

AlternativeAt == JumpAt + 3

AfterIf ==
    AlternativeAt + (IF LastExpression.Alternative = NoNode THEN 1
                     ELSE BranchLength(LastExpression.Alternative))

\* the position of the instruction the last iteration of the main frame ran
FetchedAt == Ip(last.vm) + 1

ConditionTruthy == RefValueTruthy(RefEval(LastExpression.Condition))

\* C36: in the code of an if expression OpJumpNotTruthy targets the
\* position right after the OpJump that ends the consequence and that OpJump
\* targets the position after the alternative (after OpNull when there is
\* none); on a truthy condition no instruction of the alternative runs, on
\* a non-truthy one none of the consequence (its OpJump included), and both
\* ways go on at the position after the if expression.
C36_BranchesAreExclusive ==
    (IsOneIf /\ pc \notin {"start", "compile_error"})
    => /\ At(comp.instructions, JumpNotTruthyAt) = OpJumpNotTruthy
       /\ At(comp.instructions, JumpAt) = OpJump
       /\ JumpTarget(comp.instructions, JumpNotTruthyAt) = AlternativeAt
       /\ JumpTarget(comp.instructions, JumpAt) = AfterIf
       /\ LastExpression.Alternative = NoNode
          => At(comp.instructions, AlternativeAt) = OpNull
       /\ Len(comp.instructions) = AfterIf + 1
       /\ (pc \in {"running", "returned", "panicked"} /\ last.op # -1
           /\ last.vm.framesIndex = 1)
          => /\ ConditionTruthy => FetchedAt \notin AlternativeAt .. AfterIf - 1
             /\ ~ConditionTruthy => FetchedAt \notin ConsequenceAt .. AlternativeAt - 1
       /\ (pc = "returned" /\ runErr = NoErr)
          => /\ FetchedAt = AfterIf
             /\ last.op = OpPop

\* if (1 > 2) { 1; true } else { 2 } has run its alternative: the constant 2
\* is the last instruction run before the position after the if
C36_Witness ==
    /\ program = Program(<<ExpressionStatement(
                      IfExpression(InfixExpression(">", IntegerLiteral(1), IntegerLiteral(2)),
                                   BlockStatement(<<ExpressionStatement(IntegerLiteral(1)),
                                                    ExpressionStatement(BooleanLiteral(TRUE))>>),
                                   BlockStatement(<<ExpressionStatement(IntegerLiteral(2))>>)))>>)
    /\ pc = "running"
    /\ last.op = OpConstant
    /\ FetchedAt = AlternativeAt
    /\ Ip(vm) + 1 = AfterIf
    /\ JumpAt = 15
    /\ AfterIf = 21

\* if (true) { 1 } has run its consequence and jumped over OpNull
ConsequenceJumpsOverNull ==
    /\ program = Program(<<ExpressionStatement(
                      IfExpression(BooleanLiteral(TRUE),
                                   BlockStatement(<<ExpressionStatement(IntegerLiteral(1))>>),
                                   NoNode))>>)
    /\ pc = "running"
    /\ last.op = OpJump
    /\ FetchedAt = JumpAt
    /\ Ip(vm) + 1 = AfterIf
    /\ At(comp.instructions, AfterIf - 1) = OpNull

---------------------------------------------------------------------------
(* lastInstruction and the instruction buffer.                              *)

\* lastInstruction is the last instruction of the buffer
DescribesLast(instructions, lastInstruction) ==
    /\ InRange(instructions, lastInstruction.Position)
    /\ At(instructions, lastInstruction.Position) = lastInstruction.Opcode
    /\ lastInstruction.Position + 1 + SumWidths(OperandWidths(lastInstruction.Opcode))
          = Len(instructions)

\* the buffer ends with an OpPop instruction
EndsWithPop(instructions) ==
    \E pos \in InstructionStarts(instructions, 0) :
        pos = Len(instructions) - 1 /\ At(instructions, pos) = OpPop

\* C37: after every emit and every removeLastPop of a compilation, a
\* non-empty buffer has lastInstruction on its last instruction;
\* lastInstructionIsPop answers true only of a buffer that ends with OpPop;
\* and removeLastPop takes exactly that one byte off.
C37_LastInstructionIsTheLast ==
    (program # NoNode /\ pc # "start")
    => \A k \in 1 .. Len(comp.trail) :
          LET e == comp.trail[k]
          IN  /\ e.instructions # <<>> => DescribesLast(e.instructions, e.lastInstruction)
              /\ (e.wasPop /\ e.before # <<>>) => EndsWithPop(e.before)
              /\ e.by = "removeLastPop"
                 => /\ e.wasPop
                    /\ e.removed = <<OpPop>>
                    /\ e.before = e.instructions \o <<OpPop>>

\* if (true) { 1 } else { 2 } has been compiled: removeLastPop was called
\* twice, each time taking the OpPop behind a constant
C37_Witness ==
    /\ program = Program(<<ExpressionStatement(
                      IfExpression(BooleanLiteral(TRUE),
                                   BlockStatement(<<ExpressionStatement(IntegerLiteral(1))>>),
                                   BlockStatement(<<ExpressionStatement(IntegerLiteral(2))>>)))>>)
    /\ pc = "compiled"
    /\ Cardinality({k \in 1 .. Len(comp.trail) : comp.trail[k].by = "removeLastPop"}) = 2
    /\ \A k \in 1 .. Len(comp.trail) :
          comp.trail[k].by = "removeLastPop"
          => comp.trail[k].lastInstruction.Opcode = OpConstant
    /\ comp.lastInstruction = EmittedInstruction(OpPop, 13)

---------------------------------------------------------------------------
(* Globals across the lines of a session.                                   *)

\* the last iteration ran OpGetGlobal with its operand in the instructions
RanGetGlobal ==
    /\ last.op = OpGetGlobal
    /\ ~OperandPanics(advanceIp(last.vm, 1))

GlobalRead == Operand16(advanceIp(last.vm, 1))

\* C38: over the lines of a session, lines that failed to compile or to
\* run included, every OpGetGlobal that runs reads a slot that an
\* OpSetGlobal has written.
C38_GlobalsAreSetBeforeRead ==
    (lines > 0 /\ RanGetGlobal) => GlobalRead \in DOMAIN last.vm.globals

\* let x = 1 + true failed in Run before its OpSetGlobal; the next line x
\* has read the slot 0 that nothing wrote and pushed nil
ReadUnsetAfterFailedRun ==
    /\ lines = 2
    /\ program = Program(<<ExpressionStatement(Identifier("x"))>>)
    /\ RanGetGlobal
    /\ GlobalRead = 0
    /\ last.vm.globals = [i \in {} |-> nil]
    /\ vm.stack[0] = nil

\* let a = 2; let b = u failed to compile at u, after a was defined; the
\* next line a has read the slot 0 that nothing wrote
ReadUnsetAfterFailedCompile ==
    /\ lines = 2
    /\ program = Program(<<ExpressionStatement(Identifier("a"))>>)
    /\ RanGetGlobal
    /\ GlobalRead = 0
    /\ 0 \notin DOMAIN last.vm.globals
    /\ bytecode.Constants = <<>>

=============================================================================
